---- MODULE Spec2Model ----
(***************************************************************************)
(* Model of the TCP control path of lwip_tcp_rust (src/core/tcp_rust):     *)
(* the component event handlers (components/*.rs), the legacy dispatcher   *)
(* ControlPath (control_path.rs), the API module (tcp_api.rs) and the RX   *)
(* path TcpRx (tcp_in.rs), all acting on one TcpConnectionState.           *)
(*                                                                         *)
(* A u32 is the pair <<hi, lo>> of its 16-bit halves, so that wrapping     *)
(* arithmetic and the signed comparison keep their full 32-bit width.      *)
(* A u16 is an integer in 0..65535.                                        *)
(*                                                                         *)
(* hdr is a TcpHdr in memory (tcp_proto.rs), each field the sequence of    *)
(* its bytes in address order.  threads holds the position of two threads  *)
(* that each open a connection of their own.                               *)
(***************************************************************************)
EXTENDS Integers, Sequences, FiniteSets, TLC

VARIABLES conn, prev, call, result, ISS_cp, ISS_api, ISS_rod, hdr, threads

vars == <<conn, prev, call, result, ISS_cp, ISS_api, ISS_rod, hdr, threads>>

(***************************************************************************)
(* Bounds of the model.                                                    *)
(***************************************************************************)
\* total number of generate_iss() calls in one behaviour
MaxOpens == 1

(***************************************************************************)
(* 32-bit wrapping arithmetic.                                             *)
(***************************************************************************)
Half == 2^16

SignBit == 2^15

U32(hi, lo) == <<hi, lo>>

Zero32 == U32(0, 0)

\* a u16 widened to u32 (`x as u32`)
FromU16(n) == U32(0, n)

\* u32::wrapping_add
wrapping_add(a, b) ==
    LET lo == a[2] + b[2]
    IN  U32((a[1] + b[1] + (lo \div Half)) % Half, lo % Half)

\* u32::wrapping_sub
wrapping_sub(a, b) ==
    LET lo == a[2] - b[2]
        borrow == IF lo < 0 THEN 1 ELSE 0
    IN  U32((a[1] - b[1] - borrow + Half) % Half, (lo + Half) % Half)

\* (x as i32) < 0
IsNeg32(x) == x[1] >= SignBit

\* x < (w as u32) for a u16 w
LtU16(x, w) == x[1] = 0 /\ x[2] < w

\* u16 multiplication and the u16 min/max of core::cmp
Mul16(a, b) == (a * b) % Half

Min(a, b) == IF a <= b THEN a ELSE b

Max(a, b) == IF a >= b THEN a ELSE b

(***************************************************************************)
(* Lifecycle states and the connection record.                             *)
(***************************************************************************)
TcpState == {"Closed", "Listen", "SynSent", "SynRcvd", "Established",
             "FinWait1", "FinWait2", "CloseWait", "Closing", "LastAck",
             "TimeWait"}

\* TcpConnectionState::new(); mss is a public field the embedding may set
NewConn(m) ==
    [state |-> "Closed", local_ip |-> 0, local_port |-> 0,
     remote_ip |-> 0, remote_port |-> 0, mss |-> m,
     snd_nxt |-> Zero32, rcv_nxt |-> Zero32, lastack |-> Zero32,
     iss |-> Zero32, irs |-> Zero32, snd_lbb |-> Zero32,
     snd_wnd |-> 0, snd_wnd_max |-> 0, rcv_wnd |-> 0, rcv_ann_wnd |-> 0,
     cwnd |-> 0, ssthresh |-> 65535]

\* Result<(), &str> of a handler together with the state it leaves
Ok(c) == [ok |-> TRUE, c |-> c]

Err(c) == [ok |-> FALSE, c |-> c]

\* the `?` operator: run the next handler only when the previous one was Ok
Then(r, H(_)) == IF r.ok THEN H(r.c) ELSE r

\* generate_iss(): pre-increment of the module's static ISS_COUNTER
generate_iss(counter) == wrapping_add(counter, U32(0, 1))

(***************************************************************************)
(* components/rod.rs                                                       *)
(***************************************************************************)
rod_on_syn_in_listen(c, s, newiss) ==
    Ok([c EXCEPT !.irs = s.seqno,
                 !.rcv_nxt = wrapping_add(s.seqno, U32(0, 1)),
                 !.iss = newiss, !.snd_nxt = newiss,
                 !.snd_lbb = newiss, !.lastack = newiss])

rod_on_synack_in_synsent(c, s) ==
    IF s.ackno # wrapping_add(c.iss, U32(0, 1))
    THEN Err(c)
    ELSE Ok([c EXCEPT !.irs = s.seqno,
                      !.rcv_nxt = wrapping_add(s.seqno, U32(0, 1)),
                      !.snd_nxt = wrapping_add(c.iss, U32(0, 1)),
                      !.lastack = s.ackno])

rod_on_ack_in_synrcvd(c, s) ==
    IF s.ackno # wrapping_add(c.iss, U32(0, 1))
    THEN Err(c)
    ELSE Ok([c EXCEPT !.snd_nxt = wrapping_add(c.iss, U32(0, 1)),
                      !.lastack = s.ackno])

\* faulty on_fin_in_established: rcv_nxt is taken from the segment without
\* the sequence check
rod_on_fin_in_established_resync(c, s) ==
    Ok([c EXCEPT !.rcv_nxt = s.seqno])

rod_on_fin_in_established(c, s) ==
    IF s.seqno # c.rcv_nxt
    THEN Err(c)
    ELSE Ok([c EXCEPT !.rcv_nxt = wrapping_add(c.rcv_nxt, U32(0, 1))])

rod_on_ack_in_finwait1(c, s) ==
    IF s.ackno # wrapping_add(c.snd_nxt, U32(0, 1))
    THEN Err(c)
    ELSE Ok([c EXCEPT !.lastack = s.ackno])

rod_on_fin_in_finwait1(c, s) ==
    IF s.seqno # c.rcv_nxt
    THEN Err(c)
    ELSE Ok([c EXCEPT !.rcv_nxt = wrapping_add(c.rcv_nxt, U32(0, 1))])

rod_on_fin_in_finwait2(c, s) ==
    IF s.seqno # c.rcv_nxt
    THEN Err(c)
    ELSE Ok([c EXCEPT !.rcv_nxt = wrapping_add(c.rcv_nxt, U32(0, 1))])

rod_on_ack_in_closing(c, s) ==
    IF s.ackno # wrapping_add(c.snd_nxt, U32(0, 1))
    THEN Err(c)
    ELSE Ok([c EXCEPT !.lastack = s.ackno])

\* faulty on_ack_in_lastack: expects the ACK at snd_nxt, not one past it
rod_on_ack_in_lastack_off_by_one(c, s) ==
    IF s.ackno # c.snd_nxt
    THEN Err(c)
    ELSE Ok([c EXCEPT !.lastack = s.ackno])

rod_on_ack_in_lastack(c, s) ==
    IF s.ackno # wrapping_add(c.snd_nxt, U32(0, 1))
    THEN Err(c)
    ELSE Ok([c EXCEPT !.lastack = s.ackno])

rod_on_rst(c) ==
    Ok([c EXCEPT !.snd_nxt = Zero32, !.rcv_nxt = Zero32, !.lastack = Zero32])

rod_on_abort(c) ==
    Ok([c EXCEPT !.snd_nxt = Zero32, !.rcv_nxt = Zero32, !.lastack = Zero32])

(***************************************************************************)
(* components/flow_control.rs                                              *)
(***************************************************************************)
fc_on_syn_in_listen(c, s) ==
    Ok([c EXCEPT !.snd_wnd = s.wnd, !.snd_wnd_max = s.wnd,
                 !.rcv_wnd = 4096, !.rcv_ann_wnd = 4096])

fc_on_synack_in_synsent(c, s) ==
    Ok([c EXCEPT !.snd_wnd = s.wnd, !.snd_wnd_max = s.wnd])

fc_on_ack_in_synrcvd(c, s) == Ok([c EXCEPT !.snd_wnd = s.wnd])

\* on_fin_in_established, on_ack_in_finwait1, on_fin_in_finwait1,
\* on_fin_in_finwait2, on_ack_in_closing, on_ack_in_lastack: Ok(()) only
fc_on_teardown(c, s) == Ok(c)

fc_on_rst(c) == Ok([c EXCEPT !.snd_wnd = 0, !.rcv_wnd = 0])

fc_on_abort(c) == Ok([c EXCEPT !.snd_wnd = 0, !.rcv_wnd = 0])

fc_on_connect(c) == Ok([c EXCEPT !.rcv_wnd = 4096, !.rcv_ann_wnd = 4096])

(***************************************************************************)
(* components/congestion_control.rs                                        *)
(***************************************************************************)
\* RFC 5681: IW = min(4*MSS, max(2*MSS, 4380 bytes)), in u16 arithmetic
\* faulty initial window: the 4*MSS cap is left out
InitialWindow_uncapped(mss) == Max(Mul16(2, mss), 4380)

InitialWindow(mss) == Min(Mul16(4, mss), Max(Mul16(2, mss), 4380))

\* faulty on_syn_in_listen: the passive open starts with one MSS
cc_on_syn_in_listen_one_mss(c) == Ok([c EXCEPT !.cwnd = c.mss])

cc_on_syn_in_listen(c) == Ok([c EXCEPT !.cwnd = InitialWindow(c.mss)])

\* faulty on_synack_in_synsent: cwnd stays at one MSS
cc_on_synack_in_synsent_no_raise(c) == Ok(c)

cc_on_synack_in_synsent(c) == Ok([c EXCEPT !.cwnd = InitialWindow(c.mss)])

cc_on_ack_in_synrcvd(c) == Ok(c)

\* on_fin_in_established, on_ack_in_finwait1, on_fin_in_finwait1,
\* on_fin_in_finwait2, on_ack_in_closing, on_ack_in_lastack: Ok(()) only
cc_on_teardown(c, s) == Ok(c)

cc_on_rst(c) == Ok([c EXCEPT !.cwnd = 0])

cc_on_abort(c) == Ok([c EXCEPT !.cwnd = 0])

cc_on_connect(c) == Ok([c EXCEPT !.cwnd = c.mss])

(***************************************************************************)
(* components/connection_mgmt.rs                                           *)
(***************************************************************************)
\* faulty on_syn_in_listen: the remote port is not stored
cm_on_syn_in_listen_no_port(c, remote_ip, remote_port) ==
    IF c.state # "Listen"
    THEN Err(c)
    ELSE Ok([c EXCEPT !.remote_ip = remote_ip, !.state = "SynRcvd"])

cm_on_syn_in_listen(c, remote_ip, remote_port) ==
    IF c.state # "Listen"
    THEN Err(c)
    ELSE Ok([c EXCEPT !.remote_ip = remote_ip, !.remote_port = remote_port,
                      !.state = "SynRcvd"])

cm_on_synack_in_synsent(c) ==
    IF c.state # "SynSent" THEN Err(c) ELSE Ok([c EXCEPT !.state = "Established"])

cm_on_ack_in_synrcvd(c) ==
    IF c.state # "SynRcvd" THEN Err(c) ELSE Ok([c EXCEPT !.state = "Established"])

cm_on_fin_in_established(c) ==
    IF c.state # "Established" THEN Err(c) ELSE Ok([c EXCEPT !.state = "CloseWait"])

cm_on_ack_in_finwait1(c) ==
    IF c.state # "FinWait1" THEN Err(c) ELSE Ok([c EXCEPT !.state = "FinWait2"])

cm_on_fin_in_finwait1(c) ==
    IF c.state # "FinWait1" THEN Err(c) ELSE Ok([c EXCEPT !.state = "Closing"])

cm_on_fin_in_finwait2(c) ==
    IF c.state # "FinWait2" THEN Err(c) ELSE Ok([c EXCEPT !.state = "TimeWait"])

cm_on_ack_in_closing(c) ==
    IF c.state # "Closing" THEN Err(c) ELSE Ok([c EXCEPT !.state = "TimeWait"])

cm_on_ack_in_lastack(c) ==
    IF c.state # "LastAck" THEN Err(c) ELSE Ok([c EXCEPT !.state = "Closed"])

cm_on_rst(c) == Ok([c EXCEPT !.state = "Closed"])

cm_on_abort(c) == Ok([c EXCEPT !.state = "Closed"])

\* Result<bool, _>: r.val is the must-send-FIN flag
\* faulty on_close: a half-open connection is left in its state
cm_on_close_keeps_half_open(c) ==
    CASE c.state = "Closed" -> [ok |-> TRUE, c |-> c, val |-> FALSE]
      [] c.state = "Listen" ->
            [ok |-> TRUE, c |-> [c EXCEPT !.state = "Closed"], val |-> FALSE]
      [] c.state = "Established" ->
            [ok |-> TRUE, c |-> [c EXCEPT !.state = "FinWait1"], val |-> TRUE]
      [] c.state = "CloseWait" ->
            [ok |-> TRUE, c |-> [c EXCEPT !.state = "LastAck"], val |-> TRUE]
      [] OTHER -> [ok |-> TRUE, c |-> c, val |-> FALSE]

cm_on_close(c) ==
    CASE c.state = "Closed" -> [ok |-> TRUE, c |-> c, val |-> FALSE]
      [] c.state = "Listen" ->
            [ok |-> TRUE, c |-> [c EXCEPT !.state = "Closed"], val |-> FALSE]
      [] c.state \in {"SynSent", "SynRcvd"} ->
            [ok |-> TRUE, c |-> [c EXCEPT !.state = "Closed"], val |-> FALSE]
      [] c.state = "Established" ->
            [ok |-> TRUE, c |-> [c EXCEPT !.state = "FinWait1"], val |-> TRUE]
      [] c.state = "CloseWait" ->
            [ok |-> TRUE, c |-> [c EXCEPT !.state = "LastAck"], val |-> TRUE]
      [] OTHER -> [ok |-> TRUE, c |-> c, val |-> FALSE]

(***************************************************************************)
(* control_path.rs: validators and sequence comparison                     *)
(***************************************************************************)
seq_lt(a, b) == IsNeg32(wrapping_sub(a, b))

seq_leq(a, b) == IsNeg32(wrapping_sub(a, b)) \/ wrapping_sub(a, b) = Zero32

\* faulty seq_gt: equal sequence numbers are taken to be greater
seq_gt_or_equal(a, b) == ~IsNeg32(wrapping_sub(a, b))

seq_gt(a, b) == ~IsNeg32(wrapping_sub(a, b)) /\ wrapping_sub(a, b) # Zero32

\* faulty seq_in_window: the first sequence number beyond the window is
\* taken to be inside
seq_in_window_inclusive(seq, rcv_nxt, rcv_wnd) ==
    LET d == wrapping_sub(seq, rcv_nxt)
    IN  d[1] = 0 /\ d[2] <= rcv_wnd

seq_in_window(seq, rcv_nxt, rcv_wnd) ==
    LtU16(wrapping_sub(seq, rcv_nxt), rcv_wnd)

validate_sequence_number(c, s) ==
    IF c.rcv_wnd = 0
    THEN s.seqno = c.rcv_nxt
    ELSE LET seg_end == wrapping_add(s.seqno, FromU16(s.payload_len))
         IN  \/ seq_in_window(s.seqno, c.rcv_nxt, c.rcv_wnd)
             \/ /\ s.payload_len > 0
                /\ seq_in_window(wrapping_sub(seg_end, U32(0, 1)),
                                 c.rcv_nxt, c.rcv_wnd)

validate_rst(c, s) ==
    IF validate_sequence_number(c, s) THEN "Valid" ELSE "Challenge"

\* faulty validate_ack: an ACK of exactly snd_nxt is not accepted
validate_ack_strict(c, s) ==
    IF s.ackno = c.lastack THEN "Duplicate"
    ELSE IF seq_lt(c.lastack, s.ackno) /\ seq_lt(s.ackno, c.snd_nxt) THEN "Valid"
    ELSE IF seq_gt(s.ackno, c.snd_nxt) THEN "Future"
    ELSE "Old"

validate_ack(c, s) ==
    IF s.ackno = c.lastack THEN "Duplicate"
    ELSE IF seq_lt(c.lastack, s.ackno) /\ seq_leq(s.ackno, c.snd_nxt) THEN "Valid"
    ELSE IF seq_gt(s.ackno, c.snd_nxt) THEN "Future"
    ELSE "Old"

(***************************************************************************)
(* control_path.rs: transition functions                                   *)
(***************************************************************************)
process_syn_in_listen(c, s, remote_ip, remote_port, newiss) ==
    IF c.state # "Listen"
    THEN Err(c)
    ELSE Ok([c EXCEPT !.remote_ip = remote_ip, !.remote_port = remote_port,
                      !.irs = s.seqno,
                      !.rcv_nxt = wrapping_add(s.seqno, U32(0, 1)),
                      !.iss = newiss, !.snd_nxt = newiss,
                      !.snd_lbb = newiss, !.lastack = newiss,
                      !.snd_wnd = s.wnd, !.snd_wnd_max = s.wnd,
                      !.rcv_wnd = 4096, !.rcv_ann_wnd = 4096,
                      !.cwnd = InitialWindow(c.mss),
                      !.state = "SynRcvd"])

process_rst(c) == [c EXCEPT !.state = "Closed"]

\* faulty process_fin_in_established: consumes the FIN before comparing its
\* sequence number
process_fin_in_established_eager(c, s) ==
    IF c.state # "Established" THEN Err(c)
    ELSE IF s.seqno # c.rcv_nxt
         THEN Err([c EXCEPT !.rcv_nxt = wrapping_add(c.rcv_nxt, U32(0, 1))])
    ELSE Ok([c EXCEPT !.rcv_nxt = wrapping_add(c.rcv_nxt, U32(0, 1)),
                      !.state = "CloseWait"])

\* faulty process_fin_in_established: the FIN does not consume a sequence
\* number
process_fin_in_established_no_advance(c, s) ==
    IF c.state # "Established" THEN Err(c)
    ELSE IF s.seqno # c.rcv_nxt THEN Err(c)
    ELSE Ok([c EXCEPT !.state = "CloseWait"])

process_fin_in_established(c, s) ==
    IF c.state # "Established" THEN Err(c)
    ELSE IF s.seqno # c.rcv_nxt THEN Err(c)
    ELSE Ok([c EXCEPT !.rcv_nxt = wrapping_add(c.rcv_nxt, U32(0, 1)),
                      !.state = "CloseWait"])

\* Result<bool, _> of ControlPath::initiate_close
ControlPath_initiate_close(c) ==
    CASE c.state = "Established" ->
            [ok |-> TRUE, c |-> [c EXCEPT !.state = "FinWait1"], val |-> TRUE]
      [] c.state = "CloseWait" ->
            [ok |-> TRUE, c |-> [c EXCEPT !.state = "LastAck"], val |-> TRUE]
      [] OTHER -> [ok |-> FALSE, c |-> c, val |-> FALSE]

(***************************************************************************)
(* control_path.rs: the input dispatcher.  A dispatcher result is          *)
(* [res, c, gen]: the Result returned, the state left behind and whether   *)
(* generate_iss() was called.                                              *)
(***************************************************************************)
Action(a, c) == [res |-> [kind |-> "Ok", val |-> a], c |-> c, gen |-> FALSE]

Failed(c) == [res |-> [kind |-> "Err", val |-> "error"], c |-> c, gen |-> FALSE]

Panicked(c) ==
    [res |-> [kind |-> "Panic", val |-> "unimplemented"], c |-> c, gen |-> FALSE]

\* faulty handle_rst: accepts every RST without the window test
handle_rst_unchecked(c, s) == Action("Abort", process_rst(c))

handle_rst(c, s) ==
    CASE validate_rst(c, s) = "Valid" -> Action("Abort", process_rst(c))
      [] validate_rst(c, s) = "Challenge" -> Action("SendChallengeAck", c)
      [] OTHER -> Action("Drop", c)

input_closed(c, s) ==
    IF ~s.flags.rst THEN Action("SendRst", c) ELSE Action("Drop", c)

input_listen(c, s, remote_ip, remote_port, newiss) ==
    IF s.flags.syn /\ ~s.flags.ack
    THEN LET r == process_syn_in_listen(c, s, remote_ip, remote_port, newiss)
         IN  IF r.ok
             THEN [Action("SendSynAck", r.c) EXCEPT !.gen = TRUE]
             ELSE Failed(r.c)
    ELSE Action("SendRst", c)

input_synsent(c, s) ==
    IF s.flags.syn /\ s.flags.ack THEN Action("Accept", c)
    ELSE IF s.flags.syn THEN Action("Accept", c)
    ELSE Action("Drop", c)

input_synrcvd(c, s) ==
    IF ~validate_sequence_number(c, s) THEN Action("Drop", c)
    ELSE IF s.flags.ack THEN Action("Accept", c)
    ELSE Action("Drop", c)

\* faulty input_established: a FIN is processed before the ACK number is
\* judged
input_established_fin_first(c, s) ==
    IF ~validate_sequence_number(c, s) THEN Action("Drop", c)
    ELSE IF s.flags.fin
         THEN LET r == process_fin_in_established(c, s)
              IN  IF r.ok THEN Action("SendAck", r.c) ELSE Failed(r.c)
    ELSE IF s.flags.ack /\ validate_ack(c, s) = "Future"
         THEN Action("SendChallengeAck", c)
    ELSE IF s.flags.ack /\ validate_ack(c, s) \in {"Old", "Invalid"}
         THEN Action("Drop", c)
    ELSE Action("Accept", c)

input_established(c, s) ==
    IF ~validate_sequence_number(c, s) THEN Action("Drop", c)
    ELSE IF s.flags.ack /\ validate_ack(c, s) = "Future"
         THEN Action("SendChallengeAck", c)
    ELSE IF s.flags.ack /\ validate_ack(c, s) \in {"Old", "Invalid"}
         THEN Action("Drop", c)
    ELSE IF s.flags.fin
         THEN LET r == process_fin_in_established(c, s)
              IN  IF r.ok THEN Action("SendAck", r.c) ELSE Failed(r.c)
    ELSE Action("Accept", c)

input_finwait1(c, s) ==
    IF ~validate_sequence_number(c, s) THEN Action("Drop", c)
    ELSE IF s.flags.ack \/ s.flags.fin THEN Action("Accept", c)
    ELSE Action("Drop", c)

input_finwait2(c, s) ==
    IF ~validate_sequence_number(c, s) THEN Action("Drop", c)
    ELSE IF s.flags.fin THEN Action("Accept", c)
    ELSE Action("Accept", c)

\* faulty input_closewait: accepts without the window test
input_closewait_unvalidated(c, s) == Action("Accept", c)

input_closewait(c, s) ==
    IF ~validate_sequence_number(c, s) THEN Action("Drop", c)
    ELSE Action("Accept", c)

input_closing(c, s) ==
    IF ~validate_sequence_number(c, s) THEN Action("Drop", c)
    ELSE IF s.flags.ack THEN Action("Accept", c)
    ELSE Action("Drop", c)

input_lastack(c, s) ==
    IF ~validate_sequence_number(c, s) THEN Action("Drop", c)
    ELSE IF s.flags.ack THEN Action("Accept", c)
    ELSE Action("Drop", c)

\* faulty input_timewait: a retransmitted FIN is not acknowledged again
input_timewait_silent(c, s) ==
    IF ~validate_sequence_number(c, s) THEN Action("Drop", c)
    ELSE Action("Accept", c)

input_timewait(c, s) ==
    IF ~validate_sequence_number(c, s) THEN Action("Drop", c)
    ELSE IF s.flags.fin THEN Action("SendAck", c)
    ELSE Action("Accept", c)

ControlPath_tcp_input(c, s, remote_ip, remote_port, newiss) ==
    IF s.flags.rst THEN handle_rst(c, s)
    ELSE CASE c.state = "Closed" -> input_closed(c, s)
           [] c.state = "Listen" ->
                 input_listen(c, s, remote_ip, remote_port, newiss)
           [] c.state = "SynSent" -> input_synsent(c, s)
           [] c.state = "SynRcvd" -> input_synrcvd(c, s)
           [] c.state = "Established" -> input_established(c, s)
           [] c.state = "FinWait1" -> input_finwait1(c, s)
           [] c.state = "FinWait2" -> input_finwait2(c, s)
           [] c.state = "CloseWait" -> input_closewait(c, s)
           [] c.state = "Closing" -> input_closing(c, s)
           [] c.state = "LastAck" -> input_lastack(c, s)
           [] c.state = "TimeWait" -> input_timewait(c, s)

(***************************************************************************)
(* components/rod.rs: the read-only validators are unimplemented!() stubs  *)
(***************************************************************************)
rod_validate_sequence_number(c, s, rcv_wnd) == "Panic"

rod_validate_ack(c, s) == "Panic"

rod_validate_rst(c, s, rcv_wnd) == "Panic"

(***************************************************************************)
(* tcp_api.rs and the API functions of control_path.rs.  An API result is  *)
(* [ok, c, val]: Ok/Err, the state left behind and the Ok value.           *)
(***************************************************************************)
\* faulty tcp_bind: the lifecycle state is not examined
tcp_bind_any_state(c, local_ip, local_port) ==
    IF local_port = 0 THEN [ok |-> FALSE, c |-> c, val |-> 0]
    ELSE [ok |-> TRUE,
          c |-> [c EXCEPT !.local_ip = local_ip, !.local_port = local_port],
          val |-> local_port]

tcp_bind(c, local_ip, local_port) ==
    IF c.state # "Closed" THEN [ok |-> FALSE, c |-> c, val |-> 0]
    ELSE IF local_port = 0 THEN [ok |-> FALSE, c |-> c, val |-> 0]
    ELSE [ok |-> TRUE,
          c |-> [c EXCEPT !.local_ip = local_ip, !.local_port = local_port],
          val |-> local_port]

\* faulty tcp_listen: an unbound connection may listen
tcp_listen_unbound(c) ==
    IF c.state # "Closed" THEN Err(c)
    ELSE Ok([c EXCEPT !.state = "Listen"])

tcp_listen(c) ==
    IF c.state # "Closed" THEN Err(c)
    ELSE IF c.local_port = 0 THEN Err(c)
    ELSE Ok([c EXCEPT !.state = "Listen"])

\* faulty tcp_connect: lastack starts at iss
tcp_connect_lastack_at_iss(c, remote_ip, remote_port, newiss) ==
    IF c.state # "Closed" THEN Err(c)
    ELSE Ok([c EXCEPT !.remote_ip = remote_ip, !.remote_port = remote_port,
                      !.iss = newiss, !.snd_nxt = newiss,
                      !.snd_lbb = wrapping_sub(newiss, U32(0, 1)),
                      !.lastack = newiss,
                      !.rcv_wnd = 4096, !.rcv_ann_wnd = 4096,
                      !.cwnd = c.mss,
                      !.state = "SynSent"])

\* faulty tcp_connect: the congestion window is not initialised
tcp_connect_no_window(c, remote_ip, remote_port, newiss) ==
    IF c.state # "Closed" THEN Err(c)
    ELSE Ok([c EXCEPT !.remote_ip = remote_ip, !.remote_port = remote_port,
                      !.iss = newiss, !.snd_nxt = newiss,
                      !.snd_lbb = wrapping_sub(newiss, U32(0, 1)),
                      !.lastack = wrapping_sub(newiss, U32(0, 1)),
                      !.rcv_wnd = 4096, !.rcv_ann_wnd = 4096,
                      !.state = "SynSent"])

tcp_connect(c, remote_ip, remote_port, newiss) ==
    IF c.state # "Closed" THEN Err(c)
    ELSE Ok([c EXCEPT !.remote_ip = remote_ip, !.remote_port = remote_port,
                      !.iss = newiss, !.snd_nxt = newiss,
                      !.snd_lbb = wrapping_sub(newiss, U32(0, 1)),
                      !.lastack = wrapping_sub(newiss, U32(0, 1)),
                      !.rcv_wnd = 4096, !.rcv_ann_wnd = 4096,
                      !.cwnd = c.mss,
                      !.state = "SynSent"])

\* faulty initiate_close: a connection that is already closing is dropped
\* to Closed
initiate_close_drops_closing(c) ==
    CASE c.state = "Closed" -> [ok |-> TRUE, c |-> c, val |-> FALSE]
      [] c.state \in {"Listen", "SynSent", "SynRcvd"} ->
            [ok |-> TRUE, c |-> [c EXCEPT !.state = "Closed"], val |-> FALSE]
      [] c.state = "Established" ->
            [ok |-> TRUE, c |-> [c EXCEPT !.state = "FinWait1"], val |-> TRUE]
      [] c.state = "CloseWait" ->
            [ok |-> TRUE, c |-> [c EXCEPT !.state = "LastAck"], val |-> TRUE]
      [] OTHER -> [ok |-> TRUE, c |-> [c EXCEPT !.state = "Closed"], val |-> FALSE]

initiate_close(c) ==
    CASE c.state = "Closed" -> [ok |-> TRUE, c |-> c, val |-> FALSE]
      [] c.state = "Listen" ->
            [ok |-> TRUE, c |-> [c EXCEPT !.state = "Closed"], val |-> FALSE]
      [] c.state \in {"SynSent", "SynRcvd"} ->
            [ok |-> TRUE, c |-> [c EXCEPT !.state = "Closed"], val |-> FALSE]
      [] c.state = "Established" ->
            [ok |-> TRUE, c |-> [c EXCEPT !.state = "FinWait1"], val |-> TRUE]
      [] c.state = "CloseWait" ->
            [ok |-> TRUE, c |-> [c EXCEPT !.state = "LastAck"], val |-> TRUE]
      [] OTHER -> [ok |-> TRUE, c |-> c, val |-> FALSE]

\* faulty tcp_abort: an RST is requested from Listen as well
tcp_abort_rst_in_listen(c) ==
    [ok |-> TRUE, c |-> [c EXCEPT !.state = "Closed"],
     val |-> (c.state # "Closed")]

\* faulty tcp_abort: every call consumes a sequence number for its RST
tcp_abort_consumes_seqno(c) ==
    [ok |-> TRUE,
     c |-> [c EXCEPT !.state = "Closed",
                     !.snd_nxt = wrapping_add(c.snd_nxt, FromU16(1))],
     val |-> (c.state \notin {"Closed", "Listen"})]

tcp_abort(c) ==
    [ok |-> TRUE, c |-> [c EXCEPT !.state = "Closed"],
     val |-> (c.state \notin {"Closed", "Listen"})]

\* the public dispatcher of tcp_api.rs
tcp_input(c, s, remote_ip, remote_port, newiss) ==
    IF s.flags.rst
    THEN CASE rod_validate_rst(c, s, c.rcv_wnd) = "Valid" ->
                 LET r == cm_on_rst(c)
                 IN  IF r.ok THEN Action("Abort", r.c) ELSE Failed(r.c)
           [] rod_validate_rst(c, s, c.rcv_wnd) = "Challenge" ->
                 Action("SendChallengeAck", c)
           [] rod_validate_rst(c, s, c.rcv_wnd) = "Invalid" -> Action("Drop", c)
           [] OTHER -> Panicked(c)
    ELSE CASE c.state = "Closed" ->
                 IF ~s.flags.rst THEN Action("SendRst", c) ELSE Action("Drop", c)
           [] c.state = "Listen" ->
                 IF s.flags.syn /\ ~s.flags.ack
                 THEN LET r1 == rod_on_syn_in_listen(c, s, newiss)
                          r2 == Then(r1, LAMBDA x : fc_on_syn_in_listen(x, s))
                          r3 == Then(r2, LAMBDA x : cc_on_syn_in_listen(x))
                          r4 == Then(r3, LAMBDA x :
                                    cm_on_syn_in_listen(x, remote_ip, remote_port))
                      IN  [(IF r4.ok THEN Action("SendSynAck", r4.c)
                                     ELSE Failed(r4.c)) EXCEPT !.gen = TRUE]
                 ELSE Action("SendRst", c)
           [] c.state = "SynSent" ->
                 IF s.flags.syn /\ s.flags.ack
                 THEN LET r1 == rod_on_synack_in_synsent(c, s)
                          r2 == Then(r1, LAMBDA x : fc_on_synack_in_synsent(x, s))
                          r3 == Then(r2, LAMBDA x : cc_on_synack_in_synsent(x))
                          r4 == Then(r3, LAMBDA x : cm_on_synack_in_synsent(x))
                      IN  IF r4.ok THEN Action("Accept", r4.c) ELSE Failed(r4.c)
                 ELSE IF s.flags.syn THEN Action("Accept", c)
                 ELSE Action("Drop", c)
           [] c.state = "SynRcvd" ->
                 IF rod_validate_sequence_number(c, s, c.rcv_wnd) = "Panic"
                 THEN Panicked(c)
                 ELSE IF ~rod_validate_sequence_number(c, s, c.rcv_wnd)
                 THEN Action("Drop", c)
                 ELSE IF s.flags.ack
                 THEN LET r1 == rod_on_ack_in_synrcvd(c, s)
                          r2 == Then(r1, LAMBDA x : fc_on_ack_in_synrcvd(x, s))
                          r3 == Then(r2, LAMBDA x : cc_on_ack_in_synrcvd(x))
                          r4 == Then(r3, LAMBDA x : cm_on_ack_in_synrcvd(x))
                      IN  IF r4.ok THEN Action("Accept", r4.c) ELSE Failed(r4.c)
                 ELSE Action("Drop", c)
           [] c.state = "Established" ->
                 IF rod_validate_sequence_number(c, s, c.rcv_wnd) = "Panic"
                 THEN Panicked(c)
                 ELSE IF ~rod_validate_sequence_number(c, s, c.rcv_wnd)
                 THEN Action("Drop", c)
                 ELSE IF s.flags.ack /\ rod_validate_ack(c, s) = "Panic"
                 THEN Panicked(c)
                 ELSE IF s.flags.ack /\ rod_validate_ack(c, s) = "Future"
                 THEN Action("SendChallengeAck", c)
                 ELSE IF s.flags.ack /\ rod_validate_ack(c, s) \in {"Old", "Invalid"}
                 THEN Action("Drop", c)
                 ELSE IF s.flags.fin
                 THEN LET r1 == rod_on_fin_in_established(c, s)
                          r2 == Then(r1, LAMBDA x : fc_on_teardown(x, s))
                          r3 == Then(r2, LAMBDA x : cc_on_teardown(x, s))
                          r4 == Then(r3, LAMBDA x : cm_on_fin_in_established(x))
                      IN  IF r4.ok THEN Action("SendAck", r4.c) ELSE Failed(r4.c)
                 ELSE Action("Accept", c)
           [] c.state = "FinWait1" ->
                 IF rod_validate_sequence_number(c, s, c.rcv_wnd) = "Panic"
                 THEN Panicked(c)
                 ELSE IF ~rod_validate_sequence_number(c, s, c.rcv_wnd)
                 THEN Action("Drop", c)
                 ELSE IF s.flags.ack \/ s.flags.fin THEN Action("Accept", c)
                 ELSE Action("Drop", c)
           [] c.state \in {"FinWait2", "CloseWait"} ->
                 IF rod_validate_sequence_number(c, s, c.rcv_wnd) = "Panic"
                 THEN Panicked(c)
                 ELSE IF ~rod_validate_sequence_number(c, s, c.rcv_wnd)
                 THEN Action("Drop", c)
                 ELSE Action("Accept", c)
           [] c.state \in {"Closing", "LastAck"} ->
                 IF rod_validate_sequence_number(c, s, c.rcv_wnd) = "Panic"
                 THEN Panicked(c)
                 ELSE IF ~rod_validate_sequence_number(c, s, c.rcv_wnd)
                 THEN Action("Drop", c)
                 ELSE IF s.flags.ack THEN Action("Accept", c)
                 ELSE Action("Drop", c)
           [] c.state = "TimeWait" ->
                 IF rod_validate_sequence_number(c, s, c.rcv_wnd) = "Panic"
                 THEN Panicked(c)
                 ELSE IF ~rod_validate_sequence_number(c, s, c.rcv_wnd)
                 THEN Action("Drop", c)
                 ELSE IF s.flags.fin THEN Action("SendAck", c)
                 ELSE Action("Accept", c)

\* control_path.rs carries its own copies of bind, listen, connect and abort,
\* statement for statement the same as those of tcp_api.rs
ControlPath_tcp_bind(c, local_ip, local_port) == tcp_bind(c, local_ip, local_port)

ControlPath_tcp_listen(c) == tcp_listen(c)

ControlPath_tcp_connect(c, remote_ip, remote_port, newiss) ==
    tcp_connect(c, remote_ip, remote_port, newiss)

ControlPath_tcp_abort(c) == tcp_abort(c)

(***************************************************************************)
(* tcp_in.rs: TcpRx::process_segment on a parsed segment.  The result is   *)
(* [ok, c, gen]; an Err may be returned after components were written.     *)
(***************************************************************************)
Rx(r, g) == [ok |-> r.ok, c |-> r.c, gen |-> g]

\* the four on_rst calls every process_* function makes for an RST
rx_reset(c) ==
    LET r1 == rod_on_rst(c)
        r2 == Then(r1, LAMBDA x : fc_on_rst(x))
        r3 == Then(r2, LAMBDA x : cc_on_rst(x))
        r4 == Then(r3, LAMBDA x : cm_on_rst(x))
    IN  Err(r4.c)

process_listen(c, s, remote_ip, newiss) ==
    IF s.flags.rst THEN Rx(Ok(c), FALSE)
    ELSE IF s.flags.ack THEN Rx(Err(c), FALSE)
    ELSE IF s.flags.syn
    THEN LET remote_port == c.remote_port
             r1 == rod_on_syn_in_listen(c, s, newiss)
             r2 == Then(r1, LAMBDA x : fc_on_syn_in_listen(x, s))
             r3 == Then(r2, LAMBDA x : cc_on_syn_in_listen(x))
             r4 == Then(r3, LAMBDA x : cm_on_syn_in_listen(x, remote_ip, remote_port))
         IN  Rx(r4, TRUE)
    ELSE Rx(Err(c), FALSE)

process_synsent(c, s) ==
    IF s.flags.rst THEN rx_reset(c)
    ELSE IF s.flags.syn /\ s.flags.ack
    THEN LET r1 == rod_on_synack_in_synsent(c, s)
             r2 == Then(r1, LAMBDA x : fc_on_synack_in_synsent(x, s))
             r3 == Then(r2, LAMBDA x : cc_on_synack_in_synsent(x))
         IN  Then(r3, LAMBDA x : cm_on_synack_in_synsent(x))
    ELSE Err(c)

process_synrcvd(c, s) ==
    IF s.flags.rst THEN rx_reset(c)
    ELSE IF s.flags.ack /\ ~s.flags.syn
    THEN LET r1 == rod_on_ack_in_synrcvd(c, s)
             r2 == Then(r1, LAMBDA x : fc_on_ack_in_synrcvd(x, s))
             r3 == Then(r2, LAMBDA x : cc_on_ack_in_synrcvd(x))
         IN  Then(r3, LAMBDA x : cm_on_ack_in_synrcvd(x))
    ELSE Err(c)

process_established(c, s) ==
    IF s.flags.rst THEN rx_reset(c)
    ELSE IF s.flags.fin
    THEN LET r1 == rod_on_fin_in_established(c, s)
             r2 == Then(r1, LAMBDA x : fc_on_teardown(x, s))
             r3 == Then(r2, LAMBDA x : cc_on_teardown(x, s))
         IN  Then(r3, LAMBDA x : cm_on_fin_in_established(x))
    ELSE Ok(c)

\* the FIN branch of process_finwait1 (used with and without a preceding ACK)
rx_fin_in_finwait1(c, s) ==
    LET r1 == rod_on_fin_in_finwait1(c, s)
        r2 == Then(r1, LAMBDA x : fc_on_teardown(x, s))
        r3 == Then(r2, LAMBDA x : cc_on_teardown(x, s))
    IN  Then(r3, LAMBDA x : cm_on_fin_in_finwait1(x))

process_finwait1(c, s) ==
    IF s.flags.rst THEN rx_reset(c)
    ELSE IF s.flags.ack
    THEN LET r1 == rod_on_ack_in_finwait1(c, s)
             r2 == Then(r1, LAMBDA x : fc_on_teardown(x, s))
             r3 == Then(r2, LAMBDA x : cc_on_teardown(x, s))
             r4 == Then(r3, LAMBDA x : cm_on_ack_in_finwait1(x))
         IN  IF s.flags.fin
             THEN Then(r4, LAMBDA x : rx_fin_in_finwait1(x, s))
             ELSE r4
    ELSE IF s.flags.fin THEN rx_fin_in_finwait1(c, s)
    ELSE Ok(c)

process_finwait2(c, s) ==
    IF s.flags.rst THEN rx_reset(c)
    ELSE IF s.flags.fin
    THEN LET r1 == rod_on_fin_in_finwait2(c, s)
             r2 == Then(r1, LAMBDA x : fc_on_teardown(x, s))
             r3 == Then(r2, LAMBDA x : cc_on_teardown(x, s))
         IN  Then(r3, LAMBDA x : cm_on_fin_in_finwait2(x))
    ELSE Ok(c)

process_closewait(c, s) == IF s.flags.rst THEN rx_reset(c) ELSE Ok(c)

process_closing(c, s) ==
    IF s.flags.rst THEN rx_reset(c)
    ELSE IF s.flags.ack
    THEN LET r1 == rod_on_ack_in_closing(c, s)
             r2 == Then(r1, LAMBDA x : fc_on_teardown(x, s))
             r3 == Then(r2, LAMBDA x : cc_on_teardown(x, s))
         IN  Then(r3, LAMBDA x : cm_on_ack_in_closing(x))
    ELSE Ok(c)

process_lastack(c, s) ==
    IF s.flags.rst THEN rx_reset(c)
    ELSE IF s.flags.ack
    THEN LET r1 == rod_on_ack_in_lastack(c, s)
             r2 == Then(r1, LAMBDA x : fc_on_teardown(x, s))
             r3 == Then(r2, LAMBDA x : cc_on_teardown(x, s))
         IN  Then(r3, LAMBDA x : cm_on_ack_in_lastack(x))
    ELSE Ok(c)

process_timewait(c, s) == Ok(c)

process_segment(c, s, src_ip, newiss) ==
    CASE c.state = "Listen" -> process_listen(c, s, src_ip, newiss)
      [] c.state = "SynSent" -> Rx(process_synsent(c, s), FALSE)
      [] c.state = "SynRcvd" -> Rx(process_synrcvd(c, s), FALSE)
      [] c.state = "Established" -> Rx(process_established(c, s), FALSE)
      [] c.state = "FinWait1" -> Rx(process_finwait1(c, s), FALSE)
      [] c.state = "FinWait2" -> Rx(process_finwait2(c, s), FALSE)
      [] c.state = "CloseWait" -> Rx(process_closewait(c, s), FALSE)
      [] c.state = "Closing" -> Rx(process_closing(c, s), FALSE)
      [] c.state = "LastAck" -> Rx(process_lastack(c, s), FALSE)
      [] c.state = "TimeWait" -> Rx(process_timewait(c, s), FALSE)
      [] c.state = "Closed" -> Rx(Err(c), FALSE)

(***************************************************************************)
(* Handlers of one teardown event applied directly in the order ROD, FC,   *)
(* CC, CM, as tests/control_path_tests.rs drives them.                     *)
(***************************************************************************)
TeardownEvents == {"fin_in_established", "ack_in_finwait1", "fin_in_finwait1",
                   "fin_in_finwait2", "ack_in_closing", "ack_in_lastack"}

SourceState(e) ==
    CASE e = "fin_in_established" -> "Established"
      [] e = "ack_in_finwait1" -> "FinWait1"
      [] e = "fin_in_finwait1" -> "FinWait1"
      [] e = "fin_in_finwait2" -> "FinWait2"
      [] e = "ack_in_closing" -> "Closing"
      [] e = "ack_in_lastack" -> "LastAck"

rod_on(e, c, s) ==
    CASE e = "fin_in_established" -> rod_on_fin_in_established(c, s)
      [] e = "ack_in_finwait1" -> rod_on_ack_in_finwait1(c, s)
      [] e = "fin_in_finwait1" -> rod_on_fin_in_finwait1(c, s)
      [] e = "fin_in_finwait2" -> rod_on_fin_in_finwait2(c, s)
      [] e = "ack_in_closing" -> rod_on_ack_in_closing(c, s)
      [] e = "ack_in_lastack" -> rod_on_ack_in_lastack(c, s)

cm_on(e, c) ==
    CASE e = "fin_in_established" -> cm_on_fin_in_established(c)
      [] e = "ack_in_finwait1" -> cm_on_ack_in_finwait1(c)
      [] e = "fin_in_finwait1" -> cm_on_fin_in_finwait1(c)
      [] e = "fin_in_finwait2" -> cm_on_fin_in_finwait2(c)
      [] e = "ack_in_closing" -> cm_on_ack_in_closing(c)
      [] e = "ack_in_lastack" -> cm_on_ack_in_lastack(c)

FinEvents == {"fin_in_established", "fin_in_finwait1", "fin_in_finwait2"}

\* Ok when all four handlers returned Ok, and the state left behind
apply_event(e, c, s) ==
    LET r1 == rod_on(e, c, s)
        r2 == Then(r1, LAMBDA x : fc_on_teardown(x, s))
        r3 == Then(r2, LAMBDA x : cc_on_teardown(x, s))
        r4 == Then(r3, LAMBDA x : cm_on(e, x))
    IN  [ok |-> r4.ok, c |-> r4.c]

(***************************************************************************)
(* Inputs.                                                                 *)
(***************************************************************************)
MssValues == {536}

LocalIps == {1}

RemoteIps == {2}

LocalPorts == {0, 8080}

RemotePorts == {12345}

One32 == U32(0, 1)

\* sequence numbers around the receive window of c
SeqValues(c) ==
    {c.rcv_nxt, wrapping_add(c.rcv_nxt, One32), wrapping_sub(c.rcv_nxt, One32)}

\* sequence number, advertised window and payload length of a segment: at
\* rcv_nxt, one past it, one before it, and one before it with a payload
\* that reaches rcv_nxt
ShapeValues(c) ==
    {[seqno |-> c.rcv_nxt, wnd |-> 8192, payload_len |-> 0],
     [seqno |-> wrapping_add(c.rcv_nxt, One32), wnd |-> 8192, payload_len |-> 0],
     [seqno |-> wrapping_sub(c.rcv_nxt, One32), wnd |-> 8192, payload_len |-> 0],
     [seqno |-> wrapping_sub(c.rcv_nxt, One32), wnd |-> 512, payload_len |-> 2]}

\* acknowledgement numbers around the send sequence space of c
AckValues(c) ==
    {c.snd_nxt, wrapping_add(c.snd_nxt, One32), wrapping_sub(c.lastack, One32)}

\* flag sets; no code of the control path reads psh or urg
FlagValues ==
    [fin : BOOLEAN, syn : BOOLEAN, rst : BOOLEAN, psh : {FALSE},
     ack : BOOLEAN, urg : {FALSE}]

\* Without ACK the acknowledgement field is not varied: it is the number a
\* handler would accept, so a handler reading it unguarded would show.
Segments(c) ==
    {x \in {[seqno |-> sh.seqno, ackno |-> a, flags |-> f, wnd |-> sh.wnd,
             tcphdr_len |-> 20, payload_len |-> sh.payload_len] :
                sh \in ShapeValues(c), a \in AckValues(c), f \in FlagValues} :
        x.flags.ack \/ x.ackno = wrapping_add(c.snd_nxt, One32)}

\* the segments the teardown handlers are driven with: a bare FIN for a FIN
\* event, a bare ACK for an ACK event
TeardownSegments(c, e) ==
    {[seqno |-> q, ackno |-> a,
      flags |-> [fin |-> e \in FinEvents, syn |-> FALSE, rst |-> FALSE,
                 psh |-> FALSE, ack |-> e \notin FinEvents, urg |-> FALSE],
      wnd |-> 8192, tcphdr_len |-> 20, payload_len |-> 0] :
        q \in SeqValues(c), a \in AckValues(c)}

NoFlags ==
    [fin |-> FALSE, syn |-> FALSE, rst |-> FALSE, psh |-> FALSE,
     ack |-> FALSE, urg |-> FALSE]

NoSeg ==
    [seqno |-> Zero32, ackno |-> Zero32, flags |-> NoFlags, wnd |-> 0,
     tcphdr_len |-> 20, payload_len |-> 0]

Call(o, s, ip, port) == [op |-> o, seg |-> s, ip |-> ip, port |-> port]

\* number of generate_iss() calls made so far
Opens == ISS_cp[2] + ISS_api[2] + ISS_rod[2]

\* between two calls nothing is pending: the embedding has consumed the result
Idle == Call("idle", NoSeg, 0, 0)

NoResult == [kind |-> "None", val |-> "none"]

\* a TcpHdr of zero bytes
ZeroHdr ==
    [seqno |-> <<0, 0, 0, 0>>, ackno |-> <<0, 0, 0, 0>>,
     hdrlen_rsvd_flags |-> <<0, 0>>, wnd |-> <<0, 0>>]

Threads == {1, 2}

\* no thread has started: pc is the position of a thread in its open, kind
\* the open it makes, reg the register that holds ISS_COUNTER and iss the
\* rod.iss of its connection
NoThreads ==
    [t \in Threads |-> [pc |-> "idle", kind |-> "none", reg |-> Zero32,
                        iss |-> Zero32]]

(***************************************************************************)
(* Specification.                                                          *)
(***************************************************************************)
Init ==
    /\ conn \in {NewConn(m) : m \in MssValues}
    /\ prev = conn
    /\ call = Idle
    /\ result = NoResult
    /\ ISS_cp = Zero32
    /\ ISS_api = Zero32
    /\ ISS_rod = Zero32
    /\ hdr = ZeroHdr
    /\ threads = NoThreads

Returned(r) == [kind |-> IF r.ok THEN "Ok" ELSE "Err", val |-> "unit"]

ReturnedBool(r) ==
    [kind |-> IF r.ok THEN "Ok" ELSE "Err",
     val |-> IF r.ok THEN (IF r.val THEN "true" ELSE "false") ELSE "error"]

ReturnedPort(r) == [kind |-> IF r.ok THEN "Ok" ELSE "Err", val |-> r.val]

\* one call of the embedding: c is the state the call leaves, res what it returns
Invoke(c, cl, res) ==
    /\ conn' = c
    /\ prev' = conn
    /\ call' = cl
    /\ result' = res
    /\ UNCHANGED <<hdr, threads>>

Bind ==
    /\ call = Idle
    /\ \E ip \in LocalIps, port \in LocalPorts :
           LET r == tcp_bind(conn, ip, port)
           IN  /\ Invoke(r.c, Call("tcp_bind", NoSeg, ip, port), ReturnedPort(r))
               /\ UNCHANGED <<ISS_cp, ISS_api, ISS_rod>>

Listen ==
    /\ call = Idle
    /\ LET r == tcp_listen(conn)
       IN  /\ Invoke(r.c, Call("tcp_listen", NoSeg, 0, 0), Returned(r))
           /\ UNCHANGED <<ISS_cp, ISS_api, ISS_rod>>

Connect ==
    /\ call = Idle
    /\ \E ip \in RemoteIps, port \in RemotePorts :
           LET r == tcp_connect(conn, ip, port, generate_iss(ISS_api))
           IN  /\ r.ok => Opens < MaxOpens
               /\ Invoke(r.c, Call("tcp_connect", NoSeg, ip, port), Returned(r))
               /\ ISS_api' = IF r.ok THEN generate_iss(ISS_api) ELSE ISS_api
               /\ UNCHANGED <<ISS_cp, ISS_rod>>

Close ==
    /\ call = Idle
    /\ LET r == initiate_close(conn)
       IN  /\ Invoke(r.c, Call("initiate_close", NoSeg, 0, 0), ReturnedBool(r))
           /\ UNCHANGED <<ISS_cp, ISS_api, ISS_rod>>

\* ConnectionManagementState::on_close
OnClose ==
    /\ call = Idle
    /\ LET r == cm_on_close(conn)
       IN  /\ Invoke(r.c, Call("on_close", NoSeg, 0, 0), ReturnedBool(r))
           /\ UNCHANGED <<ISS_cp, ISS_api, ISS_rod>>

Abort ==
    /\ call = Idle
    /\ LET r == tcp_abort(conn)
       IN  /\ Invoke(r.c, Call("tcp_abort", NoSeg, 0, 0), ReturnedBool(r))
           /\ UNCHANGED <<ISS_cp, ISS_api, ISS_rod>>

\* tcp_api::tcp_input
ApiInput ==
    /\ call = Idle
    /\ \E s \in Segments(conn), ip \in RemoteIps, port \in RemotePorts :
           LET r == tcp_input(conn, s, ip, port, generate_iss(ISS_rod))
           IN  /\ r.gen => Opens < MaxOpens
               /\ Invoke(r.c, Call("tcp_input", s, ip, port), r.res)
               /\ ISS_rod' = IF r.gen THEN generate_iss(ISS_rod) ELSE ISS_rod
               /\ UNCHANGED <<ISS_cp, ISS_api>>

CpBind ==
    /\ call = Idle
    /\ \E ip \in LocalIps, port \in LocalPorts :
           LET r == ControlPath_tcp_bind(conn, ip, port)
           IN  /\ Invoke(r.c, Call("ControlPath::tcp_bind", NoSeg, ip, port),
                         ReturnedPort(r))
               /\ UNCHANGED <<ISS_cp, ISS_api, ISS_rod>>

CpListen ==
    /\ call = Idle
    /\ LET r == ControlPath_tcp_listen(conn)
       IN  /\ Invoke(r.c, Call("ControlPath::tcp_listen", NoSeg, 0, 0), Returned(r))
           /\ UNCHANGED <<ISS_cp, ISS_api, ISS_rod>>

CpConnect ==
    /\ call = Idle
    /\ \E ip \in RemoteIps, port \in RemotePorts :
           LET r == ControlPath_tcp_connect(conn, ip, port, generate_iss(ISS_cp))
           IN  /\ r.ok => Opens < MaxOpens
               /\ Invoke(r.c, Call("ControlPath::tcp_connect", NoSeg, ip, port),
                         Returned(r))
               /\ ISS_cp' = IF r.ok THEN generate_iss(ISS_cp) ELSE ISS_cp
               /\ UNCHANGED <<ISS_api, ISS_rod>>

CpClose ==
    /\ call = Idle
    /\ LET r == ControlPath_initiate_close(conn)
       IN  /\ Invoke(r.c, Call("ControlPath::initiate_close", NoSeg, 0, 0),
                     ReturnedBool(r))
           /\ UNCHANGED <<ISS_cp, ISS_api, ISS_rod>>

CpAbort ==
    /\ call = Idle
    /\ LET r == ControlPath_tcp_abort(conn)
       IN  /\ Invoke(r.c, Call("ControlPath::tcp_abort", NoSeg, 0, 0), ReturnedBool(r))
           /\ UNCHANGED <<ISS_cp, ISS_api, ISS_rod>>

\* ControlPath::tcp_input
CpInput ==
    /\ call = Idle
    /\ \E s \in Segments(conn), ip \in RemoteIps, port \in RemotePorts :
           LET r == ControlPath_tcp_input(conn, s, ip, port, generate_iss(ISS_cp))
           IN  /\ r.gen => Opens < MaxOpens
               /\ Invoke(r.c, Call("ControlPath::tcp_input", s, ip, port), r.res)
               /\ ISS_cp' = IF r.gen THEN generate_iss(ISS_cp) ELSE ISS_cp
               /\ UNCHANGED <<ISS_api, ISS_rod>>

\* TcpRx::process_segment
RxSegment ==
    /\ call = Idle
    /\ \E s \in Segments(conn), ip \in RemoteIps :
           LET r == process_segment(conn, s, ip, generate_iss(ISS_rod))
           IN  /\ r.gen => Opens < MaxOpens
               /\ Invoke(r.c, Call("process_segment", s, ip, 0), Returned(r))
               /\ ISS_rod' = IF r.gen THEN generate_iss(ISS_rod) ELSE ISS_rod
               /\ UNCHANGED <<ISS_cp, ISS_api>>

\* the handlers of one teardown event, called in the event's source state
Teardown ==
    /\ call = Idle
    /\ \E e \in TeardownEvents :
       /\ conn.state = SourceState(e)
       /\ \E s \in TeardownSegments(conn, e) :
           LET r == apply_event(e, conn, s)
           IN  /\ Invoke(r.c, Call(e, s, 0, 0), Returned(r))
               /\ UNCHANGED <<ISS_cp, ISS_api, ISS_rod>>

\* the call has returned and the embedding has consumed its result
Return ==
    /\ call # Idle
    /\ prev' = conn
    /\ call' = Idle
    /\ result' = NoResult
    /\ UNCHANGED <<conn, ISS_cp, ISS_api, ISS_rod, hdr, threads>>

Next ==
    \/ Bind
    \/ Listen
    \/ Connect
    \/ Close \/ OnClose
    \/ Abort
    \/ ApiInput
    \/ CpBind
    \/ CpListen
    \/ CpConnect
    \/ CpClose
    \/ CpAbort
    \/ CpInput
    \/ RxSegment
    \/ Teardown
    \/ Return

Spec == Init /\ [][Next]_vars

\* the calls that act through the component event handlers only: the API of
\* tcp_api.rs, tcp_api::tcp_input, TcpRx::process_segment and the handlers
\* of a teardown event called directly
NextComponents ==
    \/ Bind
    \/ Listen
    \/ Connect
    \/ Close \/ OnClose
    \/ Abort
    \/ ApiInput
    \/ RxSegment
    \/ Teardown
    \/ Return

SpecComponents == Init /\ [][NextComponents]_vars

(***************************************************************************)
(* Properties.  After a call, prev is the connection state the call found, *)
(* call the operation with its arguments, result what it returned and conn *)
(* the state it left.                                                      *)
(***************************************************************************)
(***************************************************************************)
(* The validators of control_path.rs as pure functions: the connection is  *)
(* drawn from sequence numbers around zero, around the 2^31 sign boundary  *)
(* and around the 2^32 wrap, and the validators are applied to segments    *)
(* placed around it.                                                       *)
(***************************************************************************)
MaxDelta == 3

MaxPayload == 3

MaxWnd == 3

Bases == {U32(0, 0), U32(0, 2), U32(Half - 1, Half - 2), U32(SignBit - 1, Half - 1)}

\* distances between two sequence numbers: small ones in both directions
\* and the ones around half of the sequence space
Deltas ==
    {FromU16(d) : d \in 0..MaxDelta}
        \cup {wrapping_sub(Zero32, FromU16(d)) : d \in 1..MaxDelta}
        \cup {U32(SignBit - 1, Half - 1), U32(SignBit, 0), U32(SignBit, 1)}

Windows == (0..MaxWnd) \cup {4096}

ValidatorConns ==
    {[NewConn(536) EXCEPT !.state = "Established",
                          !.rcv_nxt = b, !.rcv_wnd = w,
                          !.lastack = b, !.snd_nxt = wrapping_add(b, n)] :
        b \in Bases, w \in Windows, n \in Deltas}

InitValidators ==
    /\ conn \in ValidatorConns
    /\ prev = conn
    /\ call = Idle
    /\ result = NoResult
    /\ ISS_cp = Zero32
    /\ ISS_api = Zero32
    /\ ISS_rod = Zero32
    /\ hdr = ZeroHdr
    /\ threads = NoThreads

ReturnedValue(v) == [kind |-> "Ok", val |-> v]

\* ControlPath::validate_sequence_number
ValidateSeq ==
    /\ call = Idle
    /\ \E d \in Deltas, len \in 0..MaxPayload :
           LET s == [NoSeg EXCEPT !.seqno = wrapping_add(conn.rcv_nxt, d),
                                  !.payload_len = len]
           IN  Invoke(conn, Call("validate_sequence_number", s, 0, 0),
                      ReturnedValue(IF validate_sequence_number(conn, s)
                                    THEN "true" ELSE "false"))
    /\ UNCHANGED <<ISS_cp, ISS_api, ISS_rod>>

\* ControlPath::validate_ack
ValidateAck ==
    /\ call = Idle
    /\ \E d \in Deltas :
           LET s == [NoSeg EXCEPT !.ackno = wrapping_add(conn.lastack, d),
                                  !.flags = [NoFlags EXCEPT !.ack = TRUE]]
           IN  Invoke(conn, Call("validate_ack", s, 0, 0),
                      ReturnedValue(validate_ack(conn, s)))
    /\ UNCHANGED <<ISS_cp, ISS_api, ISS_rod>>

NextValidators ==
    \/ ValidateSeq
    \/ ValidateAck
    \/ Return

SpecValidators == InitValidators /\ [][NextValidators]_vars

\* seq_lt and seq_gt applied to a pair of sequence numbers, in both orders
CompareSeq ==
    /\ call = Idle
    /\ \E a \in Bases, d \in Deltas :
           LET b == wrapping_add(a, d)
           IN  Invoke(conn,
                      Call("seq_lt", [NoSeg EXCEPT !.seqno = a, !.ackno = b],
                           0, 0),
                      [kind |-> "Ok", val |-> "compared",
                       lt |-> seq_lt(a, b), lt_swapped |-> seq_lt(b, a),
                       gt |-> seq_gt(a, b), gt_swapped |-> seq_gt(b, a)])
    /\ UNCHANGED <<ISS_cp, ISS_api, ISS_rod>>

NextCompare ==
    \/ CompareSeq
    \/ Return

SpecCompare == InitValidators /\ [][NextCompare]_vars

(***************************************************************************)
(* The initial congestion window over the range of MSS values: a fresh     *)
(* connection of any MSS is bound, made to listen and fed the SYN of the   *)
(* passive open, and the two handlers of congestion_control.rs that        *)
(* compute the initial window are applied to it.                           *)
(***************************************************************************)
MinMss == 536

MaxMss == 9216

\* ConnectionManagementState::new
DefaultMss == 536

InitInitialWindow ==
    /\ conn \in {NewConn(m) : m \in MinMss..MaxMss}
    /\ prev = conn
    /\ call = Idle
    /\ result = NoResult
    /\ ISS_cp = Zero32
    /\ ISS_api = Zero32
    /\ ISS_rod = Zero32
    /\ hdr = ZeroHdr
    /\ threads = NoThreads

\* CongestionControlState::on_syn_in_listen
CcSynInListen ==
    /\ call = Idle
    /\ LET r == cc_on_syn_in_listen(conn)
       IN  /\ Invoke(r.c, Call("cc_on_syn_in_listen", NoSeg, 0, 0), Returned(r))
           /\ UNCHANGED <<ISS_cp, ISS_api, ISS_rod>>

\* CongestionControlState::on_synack_in_synsent
CcSynAckInSynSent ==
    /\ call = Idle
    /\ LET r == cc_on_synack_in_synsent(conn)
       IN  /\ Invoke(r.c, Call("cc_on_synack_in_synsent", NoSeg, 0, 0),
                     Returned(r))
           /\ UNCHANGED <<ISS_cp, ISS_api, ISS_rod>>

\* the SYN of the passive open: {seqno = 1000, ackno = 0, flags = SYN,
\* wnd = 8192}
PassiveOpenSyn ==
    [seqno |-> U32(0, 1000), ackno |-> Zero32, wnd |-> 8192,
     tcphdr_len |-> 20, payload_len |-> 0,
     flags |-> [NoFlags EXCEPT !.syn = TRUE]]

\* the SYN of the passive open fed to ControlPath::tcp_input
CpInputSyn ==
    /\ call = Idle
    /\ \E ip \in RemoteIps, port \in RemotePorts :
           LET r == ControlPath_tcp_input(conn, PassiveOpenSyn, ip, port,
                                          generate_iss(ISS_cp))
           IN  /\ r.gen => Opens < MaxOpens
               /\ Invoke(r.c, Call("ControlPath::tcp_input", PassiveOpenSyn,
                                   ip, port), r.res)
               /\ ISS_cp' = IF r.gen THEN generate_iss(ISS_cp) ELSE ISS_cp
               /\ UNCHANGED <<ISS_api, ISS_rod>>

\* the SYN of the passive open fed to tcp_api::tcp_input
ApiInputSyn ==
    /\ call = Idle
    /\ \E ip \in RemoteIps, port \in RemotePorts :
           LET r == tcp_input(conn, PassiveOpenSyn, ip, port,
                              generate_iss(ISS_rod))
           IN  /\ r.gen => Opens < MaxOpens
               /\ Invoke(r.c, Call("tcp_input", PassiveOpenSyn, ip, port), r.res)
               /\ ISS_rod' = IF r.gen THEN generate_iss(ISS_rod) ELSE ISS_rod
               /\ UNCHANGED <<ISS_cp, ISS_api>>

\* the SYN of the passive open fed to TcpRx::process_segment
RxSegmentSyn ==
    /\ call = Idle
    /\ \E ip \in RemoteIps :
           LET r == process_segment(conn, PassiveOpenSyn, ip,
                                    generate_iss(ISS_rod))
           IN  /\ r.gen => Opens < MaxOpens
               /\ Invoke(r.c, Call("process_segment", PassiveOpenSyn, ip, 0),
                         Returned(r))
               /\ ISS_rod' = IF r.gen THEN generate_iss(ISS_rod) ELSE ISS_rod
               /\ UNCHANGED <<ISS_cp, ISS_api>>

NextInitialWindow ==
    \/ Bind
    \/ Listen
    \/ CpInputSyn
    \/ ApiInputSyn
    \/ RxSegmentSyn
    \/ CcSynInListen
    \/ CcSynAckInSynSent
    \/ Return

SpecInitialWindow == InitInitialWindow /\ [][NextInitialWindow]_vars

\* the component calls on fresh connections of the smallest and of the
\* largest MSS
InitComponentsMss ==
    /\ conn \in {NewConn(m) : m \in {MinMss, MaxMss}}
    /\ prev = conn
    /\ call = Idle
    /\ result = NoResult
    /\ ISS_cp = Zero32
    /\ ISS_api = Zero32
    /\ ISS_rod = Zero32
    /\ hdr = ZeroHdr
    /\ threads = NoThreads

SpecComponentsMss == InitComponentsMss /\ [][NextComponents]_vars

(***************************************************************************)
(* The component calls with handshakes of peers whose initial sequence     *)
(* number lies just below the 2^31 sign boundary, in the upper half of the *)
(* sequence space or just below the 2^32 wrap.                             *)
(***************************************************************************)
PeerIsns ==
    {U32(SignBit - 1, Half - 2), U32(SignBit + 4096, 0), U32(Half - 1, Half - 2)}

\* the SYN for a listening connection, the SYN+ACK of our SYN for a
\* connecting one
HandshakeSegments(c) ==
    {[seqno |-> q, ackno |-> wrapping_add(c.snd_nxt, One32),
      flags |-> [NoFlags EXCEPT !.syn = TRUE, !.ack = (c.state = "SynSent")],
      wnd |-> 8192, tcphdr_len |-> 20, payload_len |-> 0] :
        q \in IF c.state \in {"Listen", "SynSent"} THEN PeerIsns ELSE {}}

\* TcpRx::process_segment on a handshake segment
RxHandshake ==
    /\ call = Idle
    /\ \E s \in HandshakeSegments(conn), ip \in RemoteIps :
           LET r == process_segment(conn, s, ip, generate_iss(ISS_rod))
           IN  /\ r.gen => Opens < MaxOpens
               /\ Invoke(r.c, Call("process_segment", s, ip, 0), Returned(r))
               /\ ISS_rod' = IF r.gen THEN generate_iss(ISS_rod) ELSE ISS_rod
               /\ UNCHANGED <<ISS_cp, ISS_api>>

NextReceive ==
    \/ Bind
    \/ Listen
    \/ Connect
    \/ Close \/ OnClose
    \/ Abort
    \/ ApiInput
    \/ RxHandshake
    \/ RxSegment
    \/ Teardown
    \/ Return

SpecReceive == Init /\ [][NextReceive]_vars

(***************************************************************************)
(* Successive opens of one process: a connection is opened, aborted and    *)
(* opened again, actively by tcp_connect or passively by the SYN of the    *)
(* passive open, through the API of tcp_api.rs, through ControlPath and    *)
(* through TcpRx.                                                          *)
(***************************************************************************)
MaxSuccessiveOpens == 2

\* tcp_api::tcp_connect
ConnectSuccessive ==
    /\ call = Idle
    /\ \E ip \in RemoteIps, port \in RemotePorts :
           LET r == tcp_connect(conn, ip, port, generate_iss(ISS_api))
           IN  /\ r.ok => Opens < MaxSuccessiveOpens
               /\ Invoke(r.c, Call("tcp_connect", NoSeg, ip, port), Returned(r))
               /\ ISS_api' = IF r.ok THEN generate_iss(ISS_api) ELSE ISS_api
               /\ UNCHANGED <<ISS_cp, ISS_rod>>

\* ControlPath::tcp_connect
CpConnectSuccessive ==
    /\ call = Idle
    /\ \E ip \in RemoteIps, port \in RemotePorts :
           LET r == ControlPath_tcp_connect(conn, ip, port, generate_iss(ISS_cp))
           IN  /\ r.ok => Opens < MaxSuccessiveOpens
               /\ Invoke(r.c, Call("ControlPath::tcp_connect", NoSeg, ip, port),
                         Returned(r))
               /\ ISS_cp' = IF r.ok THEN generate_iss(ISS_cp) ELSE ISS_cp
               /\ UNCHANGED <<ISS_api, ISS_rod>>

\* the SYN of the passive open fed to tcp_api::tcp_input
ApiInputSuccessive ==
    /\ call = Idle
    /\ \E ip \in RemoteIps, port \in RemotePorts :
           LET r == tcp_input(conn, PassiveOpenSyn, ip, port,
                              generate_iss(ISS_rod))
           IN  /\ r.gen => Opens < MaxSuccessiveOpens
               /\ Invoke(r.c, Call("tcp_input", PassiveOpenSyn, ip, port), r.res)
               /\ ISS_rod' = IF r.gen THEN generate_iss(ISS_rod) ELSE ISS_rod
               /\ UNCHANGED <<ISS_cp, ISS_api>>

\* the SYN of the passive open fed to ControlPath::tcp_input
CpInputSuccessive ==
    /\ call = Idle
    /\ \E ip \in RemoteIps, port \in RemotePorts :
           LET r == ControlPath_tcp_input(conn, PassiveOpenSyn, ip, port,
                                          generate_iss(ISS_cp))
           IN  /\ r.gen => Opens < MaxSuccessiveOpens
               /\ Invoke(r.c, Call("ControlPath::tcp_input", PassiveOpenSyn,
                                   ip, port), r.res)
               /\ ISS_cp' = IF r.gen THEN generate_iss(ISS_cp) ELSE ISS_cp
               /\ UNCHANGED <<ISS_api, ISS_rod>>

\* the SYN of the passive open fed to TcpRx::process_segment
RxSegmentSuccessive ==
    /\ call = Idle
    /\ \E ip \in RemoteIps :
           LET r == process_segment(conn, PassiveOpenSyn, ip,
                                    generate_iss(ISS_rod))
           IN  /\ r.gen => Opens < MaxSuccessiveOpens
               /\ Invoke(r.c, Call("process_segment", PassiveOpenSyn, ip, 0),
                         Returned(r))
               /\ ISS_rod' = IF r.gen THEN generate_iss(ISS_rod) ELSE ISS_rod
               /\ UNCHANGED <<ISS_cp, ISS_api>>

NextOpens ==
    \/ Bind
    \/ Listen
    \/ Abort
    \/ ConnectSuccessive
    \/ CpConnectSuccessive
    \/ ApiInputSuccessive
    \/ CpInputSuccessive
    \/ RxSegmentSuccessive
    \/ Return

SpecOpens == Init /\ [][NextOpens]_vars

(***************************************************************************)
(* The TCP header (tcp_proto.rs).  The fields of a TcpHdr are kept in      *)
(* network byte order; a field is modelled by its bytes in address order.  *)
(***************************************************************************)
TCP_FIN == 1

TCP_SYN == 2

TCP_RST == 4

TCP_PSH == 8

TCP_ACK == 16

TCP_URG == 32

TCP_FLAGS == 63

\* u16::to_be: the two bytes of x, most significant first
to_be16(x) == <<x \div 256, x % 256>>

\* u16::from_be
from_be16(b) == b[1] * 256 + b[2]

\* u32::to_be
to_be32(x) == <<x[1] \div 256, x[1] % 256, x[2] \div 256, x[2] % 256>>

\* u32::from_be
from_be32(b) == U32(b[1] * 256 + b[2], b[3] * 256 + b[4])

\* the flag byte of a set of flags (TCP_SYN | TCP_ACK ...)
FlagByte(f) ==
    (IF f.fin THEN TCP_FIN ELSE 0) + (IF f.syn THEN TCP_SYN ELSE 0)
    + (IF f.rst THEN TCP_RST ELSE 0) + (IF f.psh THEN TCP_PSH ELSE 0)
    + (IF f.ack THEN TCP_ACK ELSE 0) + (IF f.urg THEN TCP_URG ELSE 0)

\* (len << 12) | flags on u16: the shift drops the bits above bit 15 and
\* leaves the low twelve bits zero, so the or with a u8 is a sum
set_hdrlen_flags(h, len, flags) ==
    [h EXCEPT !.hdrlen_rsvd_flags = to_be16(((len * 4096) % Half) + flags)]

TcpHdr_hdrlen(h) == from_be16(h.hdrlen_rsvd_flags) \div 4096

\* (hdrlen << 2) as u8
TcpHdr_hdrlen_bytes(h) == (TcpHdr_hdrlen(h) * 4) % 256

\* TCP_FLAGS is 2^6 - 1, the mask keeps the six low bits
TcpHdr_flags_five_bits(h) == from_be16(h.hdrlen_rsvd_flags) % 32

TcpHdr_flags(h) == from_be16(h.hdrlen_rsvd_flags) % (TCP_FLAGS + 1)

sequence_number(h) == from_be32(h.seqno)

ack_number(h) == from_be32(h.ackno)

window(h) == from_be16(h.wnd)

\* the header the test test_byte_order_conversion builds: the fields stored
\* big-endian, then set_hdrlen_flags
TcpHdr_new(seqno, ackno, len, flags, wnd) ==
    set_hdrlen_flags([seqno |-> to_be32(seqno), ackno |-> to_be32(ackno),
                      hdrlen_rsvd_flags |-> <<0, 0>>, wnd |-> to_be16(wnd)],
                     len, flags)

\* sequence and acknowledgement numbers with four distinct bytes, the
\* extremes and the sign bit
CodecSeqs ==
    {Zero32, U32(258, 772), U32(SignBit, 0), U32(Half - 1, Half - 1),
     U32(0, 1000)}

CodecWindows == {0, 1, 258, 8192, Half - 1}

\* every set of the six flags
AllFlags ==
    [fin : BOOLEAN, syn : BOOLEAN, rst : BOOLEAN, psh : BOOLEAN,
     ack : BOOLEAN, urg : BOOLEAN]

\* a fresh header is written, with a header length of five words
Encode ==
    /\ call = Idle
    /\ hdr = ZeroHdr
    /\ \E s \in CodecSeqs, a \in CodecSeqs, f \in AllFlags, w \in CodecWindows :
           /\ hdr' = TcpHdr_new(s, a, 5, FlagByte(f), w)
           /\ call' = Call("TcpHdr", [NoSeg EXCEPT !.seqno = s, !.ackno = a,
                                                    !.flags = f, !.wnd = w],
                           0, 0)
    /\ UNCHANGED <<conn, prev, result, ISS_cp, ISS_api, ISS_rod, threads>>

\* the header is read back through its accessors
Decode ==
    /\ call.op = "TcpHdr"
    /\ result = NoResult
    /\ result' = [kind |-> "Ok", val |-> "header",
                  read |-> [seqno |-> sequence_number(hdr),
                            ackno |-> ack_number(hdr),
                            flags |-> TcpHdr_flags(hdr),
                            wnd |-> window(hdr),
                            hdrlen |-> TcpHdr_hdrlen(hdr),
                            hdrlen_bytes |-> TcpHdr_hdrlen_bytes(hdr)]]
    /\ UNCHANGED <<conn, prev, call, ISS_cp, ISS_api, ISS_rod, hdr, threads>>

NextCodec ==
    \/ Encode
    \/ Decode
    \/ Return

SpecCodec == Init /\ [][NextCodec]_vars

(***************************************************************************)
(* Two threads, each opening a connection of its own.  generate_iss() is   *)
(* `ISS_COUNTER = ISS_COUNTER.wrapping_add(1); ISS_COUNTER` on a           *)
(* `static mut` without synchronisation: a load, a store and the value     *)
(* returned, which other threads' steps may separate.  tcp_connect uses    *)
(* the counter of tcp_api.rs, a passive open the counter of rod.rs.        *)
(***************************************************************************)
OpenKinds == {"tcp_connect", "on_syn_in_listen"}

\* the ISS_COUNTER an open of kind k uses
CounterOf(k) == IF k = "tcp_connect" THEN ISS_api ELSE ISS_rod

\* thread t starts to open its connection
ThreadOpen ==
    /\ call = Idle
    /\ \E t \in Threads, k \in OpenKinds :
           /\ threads[t].pc = "idle"
           /\ threads' = [threads EXCEPT ![t].pc = "called", ![t].kind = k]
    /\ UNCHANGED <<conn, prev, call, result, ISS_cp, ISS_api, ISS_rod, hdr>>

\* the read of ISS_COUNTER
IssLoad ==
    /\ call = Idle
    /\ \E t \in Threads :
           /\ threads[t].pc = "called"
           /\ threads' = [threads EXCEPT ![t].pc = "loaded",
                                         ![t].reg = CounterOf(threads[t].kind)]
    /\ UNCHANGED <<conn, prev, call, result, ISS_cp, ISS_api, ISS_rod, hdr>>

\* the write of ISS_COUNTER.wrapping_add(1)
IssStore ==
    /\ call = Idle
    /\ \E t \in Threads :
           /\ threads[t].pc = "loaded"
           /\ threads' = [threads EXCEPT ![t].pc = "stored"]
           /\ IF threads[t].kind = "tcp_connect"
              THEN /\ ISS_api' = generate_iss(threads[t].reg)
                   /\ UNCHANGED ISS_rod
              ELSE /\ ISS_rod' = generate_iss(threads[t].reg)
                   /\ UNCHANGED ISS_api
    /\ UNCHANGED <<conn, prev, call, result, ISS_cp, hdr>>

\* the value generate_iss() returns becomes rod.iss of the thread's
\* connection: the value just written, kept in a register, or ISS_COUNTER
\* read again (the accesses race, the build may produce either)
IssReturn ==
    /\ call = Idle
    /\ \E t \in Threads :
           /\ threads[t].pc = "stored"
           /\ \E v \in {generate_iss(threads[t].reg),
                        CounterOf(threads[t].kind)} :
                  threads' = [threads EXCEPT ![t].pc = "done", ![t].iss = v]
    /\ UNCHANGED <<conn, prev, call, result, ISS_cp, ISS_api, ISS_rod, hdr>>

NextThreads ==
    \/ ThreadOpen
    \/ IssLoad
    \/ IssStore
    \/ IssReturn

SpecThreads == Init /\ [][NextThreads]_vars

ViaControlPath == call.op = "ControlPath::tcp_input"

ViaApi == call.op = "tcp_input"

Gave(a) == result = [kind |-> "Ok", val |-> a]

InWindow == validate_sequence_number(prev, call.seg)

C1_WitnessChallenge ==
    /\ ViaControlPath /\ call.seg.flags.rst /\ ~InWindow
    /\ prev.state = "FinWait2"
    /\ Gave("SendChallengeAck") /\ conn = prev

\* C2: after ControlPath::tcp_input accepts an in-window RST, all four
\* components are reset: state Closed, snd_nxt = rcv_nxt = lastack = 0,
\* snd_wnd = rcv_wnd = 0 and cwnd = 0.
C2_RstResetsAllComponents ==
    (ViaControlPath /\ call.seg.flags.rst /\ InWindow /\ Gave("Abort")) =>
        /\ conn.state = "Closed"
        /\ conn.snd_nxt = Zero32 /\ conn.rcv_nxt = Zero32 /\ conn.lastack = Zero32
        /\ conn.snd_wnd = 0 /\ conn.rcv_wnd = 0
        /\ conn.cwnd = 0

Rejected ==
    \/ result.kind = "Err"
    \/ Gave("Drop") \/ Gave("SendRst") \/ Gave("SendChallengeAck")

\* C3: whenever ControlPath::tcp_input or tcp_api::tcp_input returns Drop,
\* SendRst, SendChallengeAck or an error, no field of the connection state
\* differs from its value before the call.
C3_RejectedSegmentChangesNothing ==
    ((ViaControlPath \/ ViaApi) /\ Rejected) => conn = prev

\* ControlPath::tcp_input has returned an error for a FIN that is in the
\* window but not at rcv_nxt
C3_Witness ==
    /\ ViaControlPath /\ result.kind = "Err"
    /\ prev.state = "Established" /\ call.seg.flags.fin
    /\ call.seg.seqno # prev.rcv_nxt
    /\ conn = prev

\* tcp_api::tcp_input has returned an error for a SYN+ACK that does not
\* acknowledge the SYN
C3_WitnessApi ==
    /\ ViaApi /\ result.kind = "Err"
    /\ prev.state = "SynSent"
    /\ call.seg.ackno # wrapping_add(prev.iss, One32)
    /\ conn = prev

\* what the claims on a SYN in Listen require of the call's outcome
SynRcvdAfterSyn ==
    /\ Gave("SendSynAck")
    /\ conn.state = "SynRcvd"
    /\ conn.irs = call.seg.seqno
    /\ conn.rcv_nxt = wrapping_add(call.seg.seqno, One32)
    /\ conn.snd_nxt = conn.iss /\ conn.snd_lbb = conn.iss /\ conn.lastack = conn.iss
    /\ conn.snd_wnd = call.seg.wnd /\ conn.snd_wnd_max = call.seg.wnd
    /\ conn.rcv_wnd = 4096
    /\ conn.remote_ip = call.ip /\ conn.remote_port = call.port

\* C4: in Listen, feeding tcp_input a segment with SYN set and ACK clear
\* returns SendSynAck and leaves state SynRcvd, irs = seg.seqno, rcv_nxt =
\* seg.seqno + 1, snd_nxt = snd_lbb = lastack = iss, snd_wnd = snd_wnd_max =
\* seg.wnd, rcv_wnd = 4096 and the remote endpoint equal to the arguments.
C4_SynInListen ==
    ((ViaApi \/ ViaControlPath) /\ prev.state = "Listen"
        /\ call.seg.flags.syn /\ ~call.seg.flags.ack) => SynRcvdAfterSyn

\* C4, amended: the same, for segments that also have RST clear (RST is
\* examined before the state is dispatched on).
C4_SynWithoutRstInListen ==
    ((ViaApi \/ ViaControlPath) /\ prev.state = "Listen"
        /\ call.seg.flags.syn /\ ~call.seg.flags.ack /\ ~call.seg.flags.rst)
    => SynRcvdAfterSyn

\* tcp_api::tcp_input has accepted a SYN in Listen
C4_Witness ==
    /\ ViaApi /\ prev.state = "Listen"
    /\ call.seg.flags.syn /\ ~call.seg.flags.ack /\ ~call.seg.flags.rst
    /\ conn.state = "SynRcvd" /\ conn.snd_wnd = 512

\* C5: in SynRcvd, feeding ControlPath::tcp_input an in-window segment with
\* ACK set and ackno = iss + 1 returns Accept and leaves the connection in
\* Established with snd_nxt = lastack = iss + 1 and snd_wnd = seg.wnd.
C5_AckInSynRcvd ==
    (ViaControlPath /\ prev.state = "SynRcvd" /\ ~call.seg.flags.rst
        /\ InWindow /\ call.seg.flags.ack
        /\ call.seg.ackno = wrapping_add(prev.iss, One32)) =>
        /\ Gave("Accept")
        /\ conn.state = "Established"
        /\ conn.snd_nxt = wrapping_add(prev.iss, One32)
        /\ conn.lastack = wrapping_add(prev.iss, One32)
        /\ conn.snd_wnd = call.seg.wnd

\* C6: in SynSent (after connect), feeding tcp_api::tcp_input a SYN+ACK (SYN
\* and ACK set, RST clear) with ackno = iss + 1 returns Accept with state
\* Established, irs = seg.seqno, rcv_nxt = seg.seqno + 1, snd_nxt = lastack =
\* iss + 1, snd_wnd = snd_wnd_max = seg.wnd, and cwnd raised from one MSS to
\* min(4*MSS, max(2*MSS, 4380)).
C6_SynAckInSynSent ==
    (ViaApi /\ prev.state = "SynSent"
        /\ call.seg.flags.syn /\ call.seg.flags.ack /\ ~call.seg.flags.rst
        /\ call.seg.ackno = wrapping_add(prev.iss, One32)) =>
        /\ Gave("Accept")
        /\ conn.state = "Established"
        /\ conn.irs = call.seg.seqno
        /\ conn.rcv_nxt = wrapping_add(call.seg.seqno, One32)
        /\ conn.snd_nxt = wrapping_add(prev.iss, One32)
        /\ conn.lastack = wrapping_add(prev.iss, One32)
        /\ conn.snd_wnd = call.seg.wnd /\ conn.snd_wnd_max = call.seg.wnd
        /\ prev.cwnd = prev.mss
        /\ conn.cwnd = Min(4 * prev.mss, Max(2 * prev.mss, 4380))

\* tcp_api::tcp_input has completed an active open
C6_Witness ==
    /\ ViaApi /\ prev.state = "SynSent"
    /\ call.seg.flags.syn /\ call.seg.flags.ack /\ ~call.seg.flags.rst
    /\ call.seg.ackno = wrapping_add(prev.iss, One32)
    /\ conn.state = "Established" /\ conn.cwnd > prev.cwnd

CloseCalled ==
    call.op \in {"initiate_close", "on_close", "ControlPath::initiate_close"}

AckOnly == [NoFlags EXCEPT !.ack = TRUE]

FinAck == [NoFlags EXCEPT !.fin = TRUE, !.ack = TRUE]

\* the segment {seqno = R, ackno = N + 1} of the active close, R and N being
\* rcv_nxt and snd_nxt, which neither close() nor the ACK of the FIN moves
AcksOurFin ==
    /\ call.seg.seqno = prev.rcv_nxt
    /\ call.seg.ackno = wrapping_add(prev.snd_nxt, One32)

\* C7: graceful active close through ControlPath::tcp_input: from
\* Established with snd_nxt = N and rcv_nxt = R, close() returns true and the
\* state is FinWait1; feeding {seqno=R, ackno=N+1, ACK} then leaves the state
\* FinWait2; feeding {seqno=R, ackno=N+1, FIN|ACK} then leaves it TimeWait.
C7_ActiveCloseThroughDispatcher ==
    /\ (CloseCalled /\ prev.state = "Established") =>
            (result = [kind |-> "Ok", val |-> "true"] /\ conn.state = "FinWait1")
    /\ (ViaControlPath /\ prev.state = "FinWait1" /\ AcksOurFin
            /\ call.seg.flags = AckOnly) => conn.state = "FinWait2"
    /\ (ViaControlPath /\ prev.state = "FinWait2" /\ AcksOurFin
            /\ call.seg.flags = FinAck) => conn.state = "TimeWait"

\* the RFC 793 edge of each teardown event
TargetState(e) ==
    CASE e = "fin_in_established" -> "CloseWait"
      [] e = "ack_in_finwait1" -> "FinWait2"
      [] e = "fin_in_finwait1" -> "Closing"
      [] e = "fin_in_finwait2" -> "TimeWait"
      [] e = "ack_in_closing" -> "TimeWait"
      [] e = "ack_in_lastack" -> "Closed"

MatchingSegment ==
    IF call.op \in FinEvents
    THEN call.seg.seqno = prev.rcv_nxt
    ELSE call.seg.ackno = wrapping_add(prev.snd_nxt, One32)

\* C8: for each teardown event, its handlers applied in the order ROD, FC,
\* CC, CM in the event's source state with a matching segment (FIN events:
\* seqno = rcv_nxt; ACK-of-FIN events: ackno = snd_nxt + 1) all succeed and
\* move the lifecycle along the RFC 793 edge, with rcv_nxt advanced by
\* exactly one for FIN events and lastack = seg.ackno for ACK events.
C8_TeardownHandlers ==
    (call.op \in TeardownEvents /\ prev.state = SourceState(call.op)
        /\ MatchingSegment) =>
        /\ result.kind = "Ok"
        /\ conn.state = TargetState(call.op)
        /\ IF call.op \in FinEvents
           THEN conn.rcv_nxt = wrapping_add(prev.rcv_nxt, One32)
           ELSE conn.lastack = call.seg.ackno

\* a simultaneous close has reached TimeWait on the ACK of our FIN
C8_Witness ==
    /\ call.op = "ack_in_closing" /\ prev.state = "Closing" /\ MatchingSegment
    /\ conn.state = "TimeWait" /\ conn.lastack = call.seg.ackno

\* a FIN in FinWait1 has moved the connection to Closing
C8_WitnessFin ==
    /\ call.op = "fin_in_finwait1" /\ prev.state = "FinWait1" /\ MatchingSegment
    /\ conn.state = "Closing" /\ conn.rcv_nxt # prev.rcv_nxt

\* the fields of ROD, FC and CC other than rcv_nxt
OtherFields ==
    {"snd_nxt", "lastack", "iss", "irs", "snd_lbb", "snd_wnd", "snd_wnd_max",
     "rcv_wnd", "rcv_ann_wnd", "cwnd", "ssthresh"}

AcceptableFin ==
    /\ ViaControlPath /\ prev.state = "Established"
    /\ InWindow /\ call.seg.flags.fin /\ call.seg.seqno = prev.rcv_nxt
    /\ call.seg.flags.ack => validate_ack(prev, call.seg) \in {"Valid", "Duplicate"}

PassiveCloseStarted ==
    /\ Gave("SendAck")
    /\ conn.state = "CloseWait"
    /\ conn.rcv_nxt = wrapping_add(prev.rcv_nxt, One32)
    /\ \A f \in OtherFields : conn[f] = prev[f]

\* C9: in Established, feeding ControlPath::tcp_input an in-window segment
\* with FIN set, seqno = rcv_nxt and (when ACK is set) a Valid or Duplicate
\* ackno returns SendAck, moves the state to CloseWait, advances rcv_nxt by
\* exactly one (mod 2^32) and changes no other ROD, FC or CC field.
C9_FinInEstablished == AcceptableFin => PassiveCloseStarted

\* C9, amended: the same, for segments that also have RST clear.
C9_FinWithoutRstInEstablished ==
    (AcceptableFin /\ ~call.seg.flags.rst) => PassiveCloseStarted

\* a FIN carrying a duplicate ACK has started the passive close
C9_Witness ==
    /\ AcceptableFin /\ ~call.seg.flags.rst /\ call.seg.flags.ack
    /\ conn.state = "CloseWait"

ListenCalled == call.op \in {"tcp_listen", "ControlPath::tcp_listen"}

ConnectCalled == call.op \in {"tcp_connect", "ControlPath::tcp_connect"}

AbortCalled == call.op \in {"tcp_abort", "ControlPath::tcp_abort"}

BindCalled == call.op \in {"tcp_bind", "ControlPath::tcp_bind"}

SegmentReceived == call.op = "process_segment"

SegmentEdges ==
    {<<"Listen", "SynRcvd">>, <<"SynSent", "Established">>,
     <<"SynRcvd", "Established">>, <<"Established", "CloseWait">>,
     <<"FinWait1", "FinWait2">>, <<"FinWait1", "Closing">>,
     <<"FinWait2", "TimeWait">>, <<"Closing", "TimeWait">>,
     <<"LastAck", "Closed">>}

CloseEdges ==
    {<<"Established", "FinWait1">>, <<"CloseWait", "LastAck">>,
     <<"Listen", "Closed">>, <<"SynSent", "Closed">>, <<"SynRcvd", "Closed">>}

C10_WitnessLastAck ==
    /\ SegmentReceived /\ prev.state = "LastAck" /\ ~call.seg.flags.rst
    /\ conn.state = "Closed"

\* C11: in every state reachable from a fresh connection through bind,
\* listen, connect, close, abort and inbound segments processed by the
\* component event handlers, whenever the lifecycle state is not Closed,
\* snd_nxt - lastack as a signed 32-bit value is >= 0.
C11_LastackNotAheadOfSndNxt ==
    conn.state # "Closed" =>
        ~IsNeg32(wrapping_sub(conn.snd_nxt, conn.lastack))

\* C12: for every lifecycle state and every segment, ControlPath::tcp_input
\* returns Ok(action): a handler error is reported as the action Drop,
\* never as an Err.
C12_DispatcherNeverErr == ViaControlPath => result.kind = "Ok"

Synchronized ==
    {"SynRcvd", "Established", "FinWait1", "FinWait2", "CloseWait", "Closing",
     "LastAck", "TimeWait"}

AckBeyondSndNxt ==
    LET d == wrapping_sub(call.seg.ackno, prev.snd_nxt)
    IN  ~IsNeg32(d) /\ d # Zero32

\* the ackno is older than the last acknowledgement
AckBeforeLastack == IsNeg32(wrapping_sub(call.seg.ackno, prev.lastack))

StaleOrFutureAckAnswered ==
    /\ AckBeyondSndNxt => Gave("SendChallengeAck")
    /\ AckBeforeLastack => Gave("Drop")
    /\ (AckBeyondSndNxt \/ AckBeforeLastack) => conn = prev

\* C14: in Established, an in-window segment with ACK set whose ackno is
\* beyond snd_nxt makes ControlPath::tcp_input return SendChallengeAck, and
\* one whose ackno is before lastack makes it return Drop; in both cases the
\* connection state is unchanged, also when FIN is set.
C14_FutureAndOldAck ==
    (ViaControlPath /\ prev.state = "Established" /\ InWindow
        /\ call.seg.flags.ack) => StaleOrFutureAckAnswered

\* C14, amended: the same, for segments that also have RST clear.
C14_FutureAndOldAckWithoutRst ==
    (ViaControlPath /\ prev.state = "Established" /\ InWindow
        /\ call.seg.flags.ack /\ ~call.seg.flags.rst) => StaleOrFutureAckAnswered

\* a FIN at rcv_nxt carrying an ACK of unsent data has been challenged
C14_Witness ==
    /\ ViaControlPath /\ prev.state = "Established" /\ InWindow
    /\ call.seg.flags.ack /\ ~call.seg.flags.rst /\ call.seg.flags.fin
    /\ call.seg.seqno = prev.rcv_nxt
    /\ AckBeyondSndNxt
    /\ Gave("SendChallengeAck") /\ conn = prev

\* a segment carrying an old ACK has been dropped
C14_WitnessOld ==
    /\ ViaControlPath /\ prev.state = "Established" /\ InWindow
    /\ call.seg.flags.ack /\ ~call.seg.flags.rst
    /\ AckBeforeLastack
    /\ Gave("Drop") /\ conn = prev

\* SYN set with ACK and FIN clear
SynAlone ==
    call.seg.flags.syn /\ ~call.seg.flags.ack /\ ~call.seg.flags.fin

\* C15: ControlPath::tcp_input returns SendRst exactly when the segment has
\* RST clear and either the state is Closed, or the state is Listen and the
\* segment is not a SYN alone; whenever SendRst is returned the connection
\* state is unchanged.
C15_SendRstExactlyWhen ==
    ViaControlPath =>
        /\ Gave("SendRst") <=>
              (/\ ~call.seg.flags.rst
               /\ \/ prev.state = "Closed"
                  \/ prev.state = "Listen" /\ ~SynAlone)
        /\ Gave("SendRst") => conn = prev

InputCalled ==
    call.op \in {"tcp_input", "ControlPath::tcp_input", "process_segment"}

C16_WitnessClose ==
    /\ call.op = "initiate_close" /\ prev.state = "TimeWait"
    /\ result.val = "false" /\ conn = prev

\* a segment has been absorbed by TcpRx in TimeWait
C16_WitnessRx ==
    /\ SegmentReceived /\ prev.state = "TimeWait" /\ ~call.seg.flags.rst
    /\ result.kind = "Ok" /\ conn = prev

\* C17: tcp_abort never fails and always leaves the state Closed; it returns
\* must-send-RST = false when the prior state was Closed or Listen and true
\* otherwise.
C17_AbortClosesAndAsksForRst ==
    AbortCalled =>
        /\ result.kind = "Ok"
        /\ conn.state = "Closed"
        /\ result.val =
              (IF prev.state \in {"Closed", "Listen"} THEN "false" ELSE "true")

\* tcp_abort has been called in Listen
C17_Witness ==
    /\ call.op = "tcp_abort" /\ prev.state = "Listen"
    /\ result = [kind |-> "Ok", val |-> "false"] /\ conn.state = "Closed"

\* tcp_abort has been called on an open connection
C17_WitnessRst ==
    /\ call.op = "tcp_abort" /\ prev.state = "Established"
    /\ result = [kind |-> "Ok", val |-> "true"] /\ conn.state = "Closed"

\* C18: after abort() (tcp_abort) from any state the sequence and window
\* state is cleared: snd_nxt = rcv_nxt = lastack = 0, snd_wnd = rcv_wnd = 0
\* and cwnd = 0.
C18_AbortClearsSequenceAndWindow ==
    AbortCalled =>
        /\ conn.snd_nxt = Zero32 /\ conn.rcv_nxt = Zero32
        /\ conn.lastack = Zero32
        /\ conn.snd_wnd = 0 /\ conn.rcv_wnd = 0
        /\ conn.cwnd = 0

ApiCloseCalled == call.op \in {"initiate_close", "on_close"}

\* C19: close() (initiate_close of tcp_api.rs and
\* ConnectionManagementState::on_close) in Established moves to FinWait1 and
\* returns true; in CloseWait it moves to LastAck and returns true; in
\* Listen, SynSent or SynRcvd it moves to Closed and returns false; it never
\* returns an error.
C19_CloseByState ==
    ApiCloseCalled =>
        /\ result.kind = "Ok"
        /\ prev.state = "Established" =>
               conn.state = "FinWait1" /\ result.val = "true"
        /\ prev.state = "CloseWait" =>
               conn.state = "LastAck" /\ result.val = "true"
        /\ prev.state \in {"Listen", "SynSent", "SynRcvd"} =>
               conn.state = "Closed" /\ result.val = "false"

\* on_close has closed a connection in SynRcvd
C19_Witness ==
    /\ call.op = "on_close" /\ prev.state = "SynRcvd"
    /\ result = [kind |-> "Ok", val |-> "false"] /\ conn.state = "Closed"

\* initiate_close has started the passive close
C19_WitnessCloseWait ==
    /\ call.op = "initiate_close" /\ prev.state = "CloseWait"
    /\ result = [kind |-> "Ok", val |-> "true"] /\ conn.state = "LastAck"

Closing5 == {"FinWait1", "FinWait2", "Closing", "LastAck", "TimeWait"}

\* C20: close() in FinWait1, FinWait2, Closing, LastAck or TimeWait returns
\* must-send-FIN = false as a success value, not an error, and leaves every
\* field unchanged.
C20_CloseWhileClosing ==
    (CloseCalled /\ prev.state \in Closing5) =>
        (result = [kind |-> "Ok", val |-> "false"] /\ conn = prev)

\* the ISS counter the call has drawn from
IssCounter ==
    IF call.op = "tcp_connect" THEN ISS_api ELSE ISS_cp

\* C21: tcp_connect from Closed moves to SynSent, stores the remote address
\* and port, chooses an ISS with snd_nxt = iss and lastack = iss - 1
\* (mod 2^32), sets rcv_wnd = rcv_ann_wnd = 4096 and cwnd = MSS; from any
\* other lifecycle state it returns an error and changes no field of the
\* connection state.
C21_Connect ==
    ConnectCalled =>
        IF prev.state = "Closed"
        THEN /\ result.kind = "Ok"
             /\ conn.state = "SynSent"
             /\ conn.remote_ip = call.ip /\ conn.remote_port = call.port
             /\ conn.iss = IssCounter
             /\ conn.snd_nxt = conn.iss
             /\ conn.lastack = wrapping_sub(conn.iss, One32)
             /\ conn.rcv_wnd = 4096 /\ conn.rcv_ann_wnd = 4096
             /\ conn.cwnd = prev.mss
        ELSE result.kind = "Err" /\ conn = prev

\* tcp_connect has opened a connection
C21_Witness ==
    /\ call.op = "tcp_connect" /\ prev.state = "Closed"
    /\ result.kind = "Ok" /\ conn.state = "SynSent"
    /\ conn.lastack = wrapping_sub(conn.snd_nxt, One32)

\* tcp_connect has been refused on a listening connection
C21_WitnessRefused ==
    /\ call.op = "tcp_connect" /\ prev.state = "Listen"
    /\ result.kind = "Err" /\ conn = prev

\* C22: tcp_bind succeeds only when the lifecycle state is Closed and the
\* port is nonzero: it then stores local_ip and local_port, returns the port
\* and leaves the state Closed; in any other lifecycle state or with port 0
\* it returns an error and leaves every field unchanged.
C22_Bind ==
    BindCalled =>
        IF prev.state = "Closed" /\ call.port # 0
        THEN /\ result = [kind |-> "Ok", val |-> call.port]
             /\ conn = [prev EXCEPT !.local_ip = call.ip,
                                    !.local_port = call.port]
             /\ conn.state = "Closed"
        ELSE result.kind = "Err" /\ conn = prev

\* tcp_bind has bound a port
C22_Witness ==
    /\ call.op = "tcp_bind" /\ prev.state = "Closed" /\ call.port # 0
    /\ result.kind = "Ok" /\ conn.local_port = call.port
    /\ prev.local_port = 0

\* tcp_bind has been refused on an open connection
C22_WitnessRefused ==
    /\ call.op = "tcp_bind" /\ prev.state = "Established" /\ call.port # 0
    /\ result.kind = "Err" /\ conn = prev

\* tcp_bind has refused port 0
C22_WitnessPortZero ==
    /\ call.op = "tcp_bind" /\ prev.state = "Closed" /\ call.port = 0
    /\ result.kind = "Err" /\ conn = prev

\* C23: tcp_listen succeeds exactly when the lifecycle state is Closed and a
\* nonzero local port is bound, moving the state to Listen and changing
\* nothing else; otherwise it returns an error and leaves the connection
\* state unchanged.
C23_Listen ==
    ListenCalled =>
        IF prev.state = "Closed" /\ prev.local_port # 0
        THEN result.kind = "Ok" /\ conn = [prev EXCEPT !.state = "Listen"]
        ELSE result.kind = "Err" /\ conn = prev

\* tcp_listen has started listening
C23_Witness ==
    /\ call.op = "tcp_listen" /\ prev.state = "Closed"
    /\ prev.local_port # 0
    /\ result.kind = "Ok" /\ conn.state = "Listen"

\* tcp_listen has been refused without a bound port
C23_WitnessUnbound ==
    /\ call.op = "tcp_listen" /\ prev.state = "Closed"
    /\ prev.local_port = 0
    /\ result.kind = "Err" /\ conn = prev

\* x lies in [rcv_nxt, rcv_nxt + rcv_wnd) modulo 2^32: it is rcv_nxt + k for
\* some k below rcv_wnd
InReceiveWindow(x) ==
    \E k \in 0..(prev.rcv_wnd - 1) : x = wrapping_add(prev.rcv_nxt, FromU16(k))

\* seqno + payload_len - 1
LastByte ==
    wrapping_sub(wrapping_add(call.seg.seqno, FromU16(call.seg.payload_len)),
                 One32)

SeqValidated == call.op = "validate_sequence_number"

\* C24: ControlPath::validate_sequence_number returns true exactly when
\* either rcv_wnd = 0 and seg.seqno = rcv_nxt, or rcv_wnd > 0 and seg.seqno
\* or the last byte seg.seqno + seg.payload_len - 1 lies in
\* [rcv_nxt, rcv_nxt + rcv_wnd) modulo 2^32, for every rcv_nxt, rcv_wnd,
\* seqno and payload_len.
C24_SequenceWindow ==
    SeqValidated =>
        (result.val = "true" <=>
            \/ prev.rcv_wnd = 0 /\ call.seg.seqno = prev.rcv_nxt
            \/ /\ prev.rcv_wnd > 0
               /\ InReceiveWindow(call.seg.seqno) \/ InReceiveWindow(LastByte))

\* C24, amended: the last byte counts only for a segment that has payload.
C24_SequenceWindowOfPayload ==
    SeqValidated =>
        (result.val = "true" <=>
            \/ prev.rcv_wnd = 0 /\ call.seg.seqno = prev.rcv_nxt
            \/ /\ prev.rcv_wnd > 0
               /\ \/ InReceiveWindow(call.seg.seqno)
                  \/ call.seg.payload_len > 0 /\ InReceiveWindow(LastByte))

\* a segment that starts before the window across the 2^32 wrap has been
\* accepted for its last byte
C24_Witness ==
    /\ SeqValidated /\ result.val = "true"
    /\ prev.rcv_nxt = Zero32 /\ prev.rcv_wnd > 0
    /\ call.seg.seqno = U32(Half - 1, Half - 1)
    /\ call.seg.payload_len > 0
    /\ ~InReceiveWindow(call.seg.seqno) /\ InReceiveWindow(LastByte)

\* a segment at the first sequence number beyond the window has been
\* rejected
C24_WitnessBeyond ==
    /\ SeqValidated /\ result.val = "false"
    /\ prev.rcv_wnd > 0
    /\ call.seg.seqno = wrapping_add(prev.rcv_nxt, FromU16(prev.rcv_wnd))

\* (x as i32), for the difference x of two sequence numbers
AsI32(x) == (IF x[1] >= SignBit THEN x[1] - Half ELSE x[1]) * Half + x[2]

\* a < b under signed modular comparison
Before(a, b) == AsI32(wrapping_sub(a, b)) < 0

AckValidated == call.op = "validate_ack"

\* C25: ControlPath::validate_ack classifies every ackno against
\* L = lastack and N = snd_nxt under signed modular comparison as Duplicate
\* iff ackno = L, Valid iff L < ackno <= N, Future iff ackno > N (and neither
\* of the former), and Old otherwise; it never returns Invalid.
C25_AckClasses ==
    AckValidated =>
        LET a == call.seg.ackno
            L == prev.lastack
            N == prev.snd_nxt
            dup == a = L
            valid == Before(L, a) /\ (Before(a, N) \/ a = N)
            future == AsI32(wrapping_sub(a, N)) > 0 /\ ~dup /\ ~valid
        IN  /\ result.val = "Duplicate" <=> dup
            /\ result.val = "Valid" <=> valid
            /\ result.val = "Future" <=> future
            /\ result.val = "Old" <=> (~dup /\ ~valid /\ ~future)
            /\ result.val # "Invalid"

\* an ACK of exactly snd_nxt, across the 2^32 wrap, has been found valid
C25_Witness ==
    /\ AckValidated /\ result.val = "Valid"
    /\ call.seg.ackno = prev.snd_nxt
    /\ prev.lastack = U32(Half - 1, Half - 2) /\ prev.snd_nxt = U32(0, 1)

\* an ACK half of the sequence space away from snd_nxt has been found old
C25_WitnessOld ==
    /\ AckValidated /\ result.val = "Old"
    /\ wrapping_sub(call.seg.ackno, prev.snd_nxt) = U32(SignBit, 0)

InitialWindowSet ==
    call.op \in {"cc_on_syn_in_listen", "cc_on_synack_in_synsent"}

\* C26: for every MSS m in [536, 9216], the congestion window set by
\* CongestionControlState::on_syn_in_listen (passive open) and by
\* on_synack_in_synsent (active open) equals min(4m, max(2m, 4380)) exactly,
\* with no 16-bit overflow in the computation.
C26_InitialWindowFormula ==
    (InitialWindowSet /\ prev.mss \in MinMss..MaxMss) =>
        LET m == prev.mss
        IN  /\ 4 * m < Half
            /\ conn.cwnd = Min(4 * m, Max(2 * m, 4380))
            /\ result.kind = "Ok"

\* on_synack_in_synsent has set the window of the largest MSS, where it is
\* two segments
C26_Witness ==
    /\ call.op = "cc_on_synack_in_synsent" /\ prev.mss = MaxMss
    /\ conn.cwnd = 2 * MaxMss

\* on_synack_in_synsent has set the window of an Ethernet MSS, where it is
\* the constant 4380
C26_WitnessEthernet ==
    /\ call.op = "cc_on_synack_in_synsent" /\ prev.mss = 1460
    /\ conn.cwnd = 4380

\* on_syn_in_listen has set the window of the smallest MSS, where it is four
\* segments
C26_WitnessSmall ==
    /\ call.op = "cc_on_syn_in_listen" /\ prev.mss = MinMss
    /\ conn.cwnd = 4 * MinMss

\* the SYN of the passive open has been processed on a fresh connection of
\* the default MSS that was bound and made to listen
PassiveOpenDone ==
    /\ InputCalled /\ call.seg = PassiveOpenSyn
    /\ prev.state = "Listen" /\ prev.mss = DefaultMss
    /\ prev.cwnd = 0
    /\ conn.state = "SynRcvd"

\* C27: in scenario S1 (fresh connection with the default MSS of 536, bind,
\* listen, then a SYN with seqno 1000 and window 8192), the congestion
\* window after the SYN is processed equals 4380.
C27_PassiveOpenWindow == PassiveOpenDone => conn.cwnd = 4380

\* C27, amended: the congestion window after the SYN is processed equals
\* 2144 = min(4 * 536, max(2 * 536, 4380)).
C27_PassiveOpenWindowFourSegments == PassiveOpenDone => conn.cwnd = 2144

\* the passive open of S1 has been made through the dispatcher
C27_Witness ==
    /\ PassiveOpenDone /\ ViaControlPath /\ Gave("SendSynAck")
    /\ conn.irs = U32(0, 1000) /\ conn.rcv_nxt = U32(0, 1001)
    /\ conn.snd_wnd = 8192

\* the passive open of S1 has been made through the component handlers
C27_WitnessRx ==
    /\ PassiveOpenDone /\ SegmentReceived /\ result.kind = "Ok"
    /\ conn.irs = U32(0, 1000)

\* C28: in every state reachable from a fresh connection (MSS in
\* [536, 9216]) through bind, listen, connect, close, abort and inbound
\* segments processed by the component event handlers, cwnd = 0 implies that
\* the lifecycle state is Closed or Listen.
C28_ZeroWindowOnlyClosedOrListen ==
    conn.cwnd = 0 => conn.state \in {"Closed", "Listen"}

\* an RST has zeroed the window of an open connection of the largest MSS
\* together with the move to Closed
C28_Witness ==
    /\ SegmentReceived /\ call.seg.flags.rst
    /\ prev.mss = MaxMss /\ prev.state = "Established" /\ prev.cwnd = 2 * MaxMss
    /\ conn.cwnd = 0 /\ conn.state = "Closed"

\* a connection of the smallest MSS is open with a window of one MSS
C28_WitnessOpen ==
    /\ conn.mss = MinMss /\ conn.state = "SynSent" /\ conn.cwnd = MinMss

\* the reset to zero made by an RST or by abort together with the move to
\* Closed
ResetToZero ==
    /\ conn.rcv_nxt = Zero32 /\ conn.state = "Closed"
    /\ AbortCalled \/ call.seg.flags.rst

\* the handshake step that takes rcv_nxt from the peer's initial sequence
\* number
TakenFromPeer ==
    /\ prev.state \in {"Listen", "SynSent"} /\ call.seg.flags.syn
    /\ conn.state \in {"SynRcvd", "Established"}
    /\ conn.rcv_nxt = wrapping_add(call.seg.seqno, One32)

\* C29: along every trace that starts from a fresh connection and performs a
\* valid handshake (passive or active) followed by teardown segments through
\* the component handlers, rcv_nxt never decreases under modulo-2^32 signed
\* comparison; the only exception is the reset to zero made by RST or abort
\* together with the move to Closed.
C29_RcvNxtNeverDecreases ==
    seq_lt(conn.rcv_nxt, prev.rcv_nxt) => ResetToZero

\* C29, amended: the handshake step that takes rcv_nxt from the peer's
\* initial sequence number is an exception as well.
C29_RcvNxtNeverDecreasesOnceTaken ==
    seq_lt(conn.rcv_nxt, prev.rcv_nxt) => (ResetToZero \/ TakenFromPeer)

\* a FIN has advanced rcv_nxt across the 2^32 wrap
C29_Witness ==
    /\ SegmentReceived /\ call.seg.flags.fin
    /\ prev.state = "Established" /\ conn.state = "CloseWait"
    /\ prev.rcv_nxt = U32(Half - 1, Half - 1) /\ conn.rcv_nxt = Zero32

\* an RST has reset rcv_nxt to zero
C29_WitnessReset ==
    /\ SegmentReceived /\ call.seg.flags.rst
    /\ prev.rcv_nxt # Zero32 /\ seq_lt(conn.rcv_nxt, prev.rcv_nxt)
    /\ ResetToZero

\* a FIN has advanced rcv_nxt across the 2^31 sign boundary
C29_WitnessSign ==
    /\ SegmentReceived /\ call.seg.flags.fin
    /\ prev.rcv_nxt = U32(SignBit - 1, Half - 1) /\ conn.rcv_nxt = U32(SignBit, 0)

\* what the dispatcher that was called gives a second connection, in the
\* state this one was in, for the same segment, remote address and port
SecondConnection ==
    IF ViaApi
    THEN tcp_input(prev, call.seg, call.ip, call.port, generate_iss(ISS_rod))
    ELSE ControlPath_tcp_input(prev, call.seg, call.ip, call.port,
                               generate_iss(ISS_cp))

\* C30: the dispatcher is a deterministic function of its arguments: two
\* connections in identical states that are fed the same segment with the
\* same remote address and port end in identical connection states and
\* return the same action.
C30_DispatcherDeterministic ==
    (ViaApi \/ ViaControlPath) =>
        (SecondConnection.c = conn /\ SecondConnection.res = result)

\* C31: for every lifecycle state and every segment, the public dispatcher
\* tcp_input (tcp_api.rs) runs to completion and returns a result without
\* reaching any unimplemented!() stub.
C31_DispatcherNeverPanics == ViaApi => result.kind # "Panic"

\* the call has opened the connection, actively or passively
Opened ==
    \/ ConnectCalled /\ result.kind = "Ok"
    \/ /\ InputCalled /\ call.seg.flags.syn
       /\ prev.state = "Listen" /\ conn.state = "SynRcvd"

\* C32: within one process, any two successive opens, whether active
\* (tcp_connect) or passive (a SYN processed in Listen by on_syn_in_listen),
\* choose distinct ISS values.  prev.iss is the ISS of the open before this
\* one: nothing but an open writes it.
C32_SuccessiveIssDistinct ==
    (Opened /\ Opens >= 2) => conn.iss # prev.iss

HeaderRead == call.op = "TcpHdr" /\ result.kind = "Ok"

\* C33: a header written big-endian with set_hdrlen_flags(5, flags) reads
\* back, through sequence_number(), ack_number(), flags(), window() and
\* hdrlen(), the sequence number, acknowledgement number, flags and window
\* that were stored and a header length of 5 words, and hdrlen_bytes() is 20.
C33_HeaderRoundTrip ==
    HeaderRead =>
        result.read = [seqno |-> call.seg.seqno, ackno |-> call.seg.ackno,
                       flags |-> FlagByte(call.seg.flags),
                       wnd |-> call.seg.wnd,
                       hdrlen |-> 5, hdrlen_bytes |-> 20]

\* every flag set, a sequence number of four distinct bytes and a window of
\* two distinct bytes have been read back
C33_Witness ==
    /\ HeaderRead
    /\ call.seg.seqno = U32(258, 772)
    /\ call.seg.ackno = U32(Half - 1, Half - 1)
    /\ FlagByte(call.seg.flags) = TCP_FLAGS
    /\ call.seg.wnd = 258
    /\ result.read.flags = TCP_FLAGS

\* C34: tcp_abort is idempotent: a second tcp_abort, called right after a
\* first, leaves the connection state the first call left.
C34_AbortIdempotent == call.op = "tcp_abort" => tcp_abort(conn).c = conn

\* an established connection has been aborted
C34_Witness ==
    /\ call.op = "tcp_abort"
    /\ prev.state = "Established"
    /\ conn.state = "Closed"
    /\ result.val = "true"

\* C35: in TcpRx::process_segment a segment is never left partially
\* applied: outside the reset branch, which returns its error after every
\* component has handled the RST, a segment that process_segment refuses has
\* changed nothing, the handlers that follow an accepting ROD handler all
\* accepting too (a FIN+ACK in FinWait1 included).
C35_NeverPartiallyApplied ==
    (SegmentReceived /\ ~call.seg.flags.rst /\ result.kind = "Err")
        => conn = prev

\* C36: in TcpRx::process_segment, in the states SynSent to LastAck, an RST
\* resets the connection only when its sequence number is in the receive
\* window [rcv_nxt, rcv_nxt + rcv_wnd): an RST outside the window leaves the
\* connection as it was.
C36_RstOutOfWindowIgnored ==
    (/\ SegmentReceived
     /\ call.seg.flags.rst
     /\ prev.state \in {"SynSent", "SynRcvd", "Established", "FinWait1",
                        "FinWait2", "CloseWait", "Closing", "LastAck"}
     /\ ~InReceiveWindow(call.seg.seqno))
        => conn = prev

\* what ControlPath::tcp_input makes of the state and the segment that
\* tcp_api::tcp_input was given, the two drawing the same ISS
Mirror ==
    ControlPath_tcp_input(prev, call.seg, call.ip, call.port, conn.iss)

\* C37: tcp_api::tcp_input mirrors ControlPath::tcp_input: on the same state
\* and segment the two dispatchers return the same action or error and leave
\* equal connection states.  The segments that tcp_api::tcp_input decides
\* without a ROD validator are compared, so that nothing depends on what the
\* validators compute.
C37_DispatchersAgree ==
    (ViaApi /\ result.kind # "Panic")
        => (result = Mirror.res /\ conn = Mirror.c)

BothOpened == \A t \in Threads : threads[t].pc = "done"

\* C38: two threads that concurrently open two different connections get
\* distinct initial send sequence numbers, whatever the interleaving of their
\* steps.
C38_ConcurrentIssDistinct == BothOpened => threads[1].iss # threads[2].iss

\* C39: in every state reachable through the API calls and the handshake,
\* teardown and reset handlers, snd_wnd_max is the largest window the peer
\* has advertised: snd_wnd never exceeds snd_wnd_max.
C39_SndWndMaxIsMax == conn.snd_wnd <= conn.snd_wnd_max

Compared == call.op = "seq_lt"

\* the two sequence numbers compared are exactly 2^31 apart
Antipodal == wrapping_sub(call.seg.seqno, call.seg.ackno) = U32(SignBit, 0)

\* C40: the modular sequence comparison is antisymmetric over all 32-bit
\* values: seq_lt(a, b) and seq_lt(b, a) never both hold, and seq_gt(a, b)
\* holds exactly when seq_lt(b, a) holds.
C40_SeqAntisymmetric ==
    Compared =>
        /\ ~(result.lt /\ result.lt_swapped)
        /\ result.gt <=> result.lt_swapped

\* C40, amended: the comparison is antisymmetric for all a and b that are
\* not exactly 2^31 apart: seq_lt(a, b) and seq_lt(b, a) never both hold and
\* seq_gt(a, b) holds exactly when seq_lt(b, a) holds.  For a and b exactly
\* 2^31 apart seq_lt holds in both orders and seq_gt in neither.
C40_SeqAntisymmetricOffAntipode ==
    Compared =>
        IF Antipodal
        THEN /\ result.lt /\ result.lt_swapped
             /\ ~result.gt /\ ~result.gt_swapped
        ELSE /\ ~(result.lt /\ result.lt_swapped)
             /\ result.gt <=> result.lt_swapped
             /\ result.gt_swapped <=> result.lt

\* 0xFFFFFFFE is before 1 across the wrap, and not the other way round
C40_Witness ==
    /\ Compared
    /\ call.seg.seqno = U32(Half - 1, Half - 2)
    /\ call.seg.ackno = U32(0, 1)
    /\ result.lt /\ ~result.lt_swapped
    /\ ~result.gt /\ result.gt_swapped

\* two sequence numbers 2^31 apart have been compared
C40_WitnessAntipodal == Compared /\ Antipodal /\ result.lt

====
